---------------------------- MODULE Spec2Model ----------------------------
(***************************************************************************)
(* Model of the silence-remapping pipeline of voice_tools_v1.              *)
(*                                                                         *)
(*   core/processor.py  process_audio_smart: punctuation pass, anomaly     *)
(*                      (TTS error) pass, tiny-voice-chunk filter,         *)
(*                      reconstruction loop, trailing-silence post-pass    *)
(*   core/aligner.py    align_transcript_with_script and its helpers       *)
(*                                                                         *)
(* All times are integer milliseconds, as in the source.  Audio is         *)
(* represented by what it is made of: a sequence of segments, each either  *)
(* a slice [from, to) of the source track or `to` ms of synthetic silence. *)
(*                                                                         *)
(* The candidate passes are modelled from the point where the aligned      *)
(* words exist (processor.py line 300): the aligned word sequence is an    *)
(* input, drawn from a bounded set.                                        *)
(*                                                                         *)
(*   core/processor.py  process_audio_fast and _apply_v2_logic (SpecFast), *)
(*                      calculate_hybrid_pause as test_imports.py calls it *)
(*                      (SpecPolicy), and the progress reports, cancel     *)
(*                      polls and failures of a whole run of either mode   *)
(*                      (SpecRun)                                          *)
(*   voice_app.py       VoiceApp.run_pipeline: the call of a run and the   *)
(*                      final status it shows (SpecGui)                    *)
(*   core/transcriber.py  get_whisper_model and transcribe_audio: model    *)
(*                      cache, CPU fallback, retry without VAD             *)
(*                      (SpecTranscribe)                                   *)
(*   core/aligner.py    extract_words_with_punctuation (SpecExtract) and   *)
(*                      the lookahead window on long scripts               *)
(*                      (SpecLookahead)                                    *)
(*   core/processor.py  get_punctuation_config as test_imports.py calls    *)
(*                      and reads it (SpecConfig)                          *)
(*   core/processor.py  get_pause_duration_for_punctuation (SpecLegacy)    *)
(*   voice_tools v2/voice_app.py  process_audio in both logic modes        *)
(*                      (SpecV2)                                           *)
(*   voice_app.py       the GUI thread's start and cancel handlers and the *)
(*                      run_pipeline worker threads (SpecApp, SpecAppLive) *)
(***************************************************************************)
EXTENDS Integers, Sequences, FiniteSets, TLC

VARIABLES
    \* ---- process_audio_smart ----
    pc,             \* position in process_audio_smart
    audio_len,      \* len(audio), ms
    silences,       \* list of silence dicts: start, end, len, used
    aligned_words,  \* list of AlignedWord: start_ms, end_ms, punctuation_after
    i,              \* loop index of the running loop (1-based)
    edit_points,    \* list of edit point dicts
    result,         \* output AudioSegment, as a sequence of segments
    cursor,         \* position in original audio
    \* ---- align_transcript_with_script ----
    apc,            \* position in align_transcript_with_script
    script_words,   \* extract_words_with_punctuation(script): <<word, punct>>
    transcript_words, \* texts of the transcript words
    tw_idx,         \* index of the transcript word being walked (1-based)
    script_idx,     \* cursor into script_words (0-based, as in the source)
    aligned,        \* aligned words built so far: punct and matched position
    \* ---- process_audio_fast (with pc, audio_len, i and result above) ----
    silence_ranges, \* list of <<start, end>> from detect_silence
    last_end,       \* end of the last silence handled
    segment,        \* what the last call of _apply_v2_logic returned
    \* ---- calculate_hybrid_pause, called as in test_imports.py ----
    ppc,            \* position of the call
    orig_ms,        \* original_silence_ms
    test_punct,     \* punct
    hybrid_pause,   \* the value returned
    \* ---- one run of process_audio_fast or process_audio_smart ----
    mode,           \* "fast" or "smart"
    rpc,            \* position in the run
    total,          \* length of the list the main loop walks
    run_i,          \* loop index of the main loop (0-based, as in the source)
    progress,       \* percentages passed to progress_callback, in order
    cancel_requested, \* what cancel_flag() returns if polled now
    exported,       \* result.export(...) has returned
    outcome,        \* "running", "returned", "cancelled" or "error"
    \* ---- VoiceApp.run_pipeline (voice_app.py) ----
    gpc,            \* position in run_pipeline
    status,         \* final statuses shown by run_pipeline, in order
    \* ---- transcriber.py: get_whisper_model and transcribe_audio ----
    wpc,            \* position in transcribe_audio / get_whisper_model
    calls,          \* calls of transcribe_audio so far
    model_size,     \* the size requested by the running call
    cached_model,   \* _cached_model
    cached_model_size, \* _cached_model_size
    built,          \* models constructed so far in the process
    model,          \* what get_whisper_model returned to the running call
    constructions,  \* WhisperModel(...) attempts of the running call
    recognitions,   \* model.transcribe(...) attempts of the running call
    first_error,    \* str(e) of the first recognition attempt, "" if none
    raised,         \* the exception that ended the running call, or "none"
    words,          \* the list `words` of the running call
    heard,          \* the words the latest recognition attempt yielded
    \* ---- extract_words_with_punctuation (with script_words above) ----
    xpc,            \* position of the call
    script,         \* the script text, a sequence of characters
    \* ---- get_punctuation_config, called as in test_imports.py ----
    cpc,            \* position of the call and of the test's read
    punct_arg,      \* the argument of the call
    config,         \* the dict returned
    pause_ms,       \* what get_pause_duration_for_punctuation returned
    \* ---- process_audio of voice_tools v2 (with the fast mode's variables) ----
    logic_mode,     \* "logic_v2" or the older logic
    \* ---- VoiceApp: the GUI thread and the run_pipeline worker threads ----
    is_processing,  \* self.is_processing
    cancel_flag,    \* self._cancel_requested
    start_btn,      \* state of self.start_btn: "normal" or "disabled"
    cancel_btn,     \* state of self.cancel_btn
    worker,         \* position of each run_pipeline thread, "none" if not alive
    status_label    \* what self.status_label shows

smartVars == <<pc, audio_len, silences, aligned_words, i, edit_points, result, cursor>>
alignVars == <<apc, script_words, transcript_words, tw_idx, script_idx, aligned>>
fastVars == <<silence_ranges, last_end, segment>>
policyVars == <<ppc, orig_ms, test_punct, hybrid_pause>>
runVars == <<mode, rpc, total, run_i, progress, cancel_requested, exported, outcome>>
guiVars == <<gpc, status>>
heardVars == <<words, heard>>
whisperVars == <<wpc, calls, model_size, cached_model, cached_model_size, built,
                 model, constructions, recognitions, first_error, raised,
                 heardVars>>
textVars == <<xpc, script>>
configVars == <<cpc, punct_arg, config, pause_ms>>
v2Vars == <<logic_mode>>
appVars == <<is_processing, cancel_flag, start_btn, cancel_btn, worker, status_label>>
restVars == <<guiVars, whisperVars, textVars, configVars, v2Vars, appVars>>
nonGuiRest == <<whisperVars, textVars, configVars, v2Vars, appVars>>
nonWhisperRest == <<guiVars, textVars, configVars, v2Vars, appVars>>
nonTextRest == <<guiVars, whisperVars, configVars, v2Vars, appVars>>
nonConfigRest == <<guiVars, whisperVars, textVars, v2Vars, appVars>>
nonV2Rest == <<guiVars, whisperVars, textVars, configVars, appVars>>
nonAppRest == <<guiVars, whisperVars, textVars, configVars, v2Vars>>
vars == <<smartVars, alignVars, fastVars, policyVars, runVars, restVars>>

-----------------------------------------------------------------------------
(* Program constants *)

FRAME_MS == 33
TTS_ERROR_THRESHOLD_MS == 300
TTS_ERROR_TARGET_MS == 100
TTS_ERROR_HEAD_MS == 50
TTS_ERROR_TAIL_MS == 50
END_SENTENCE_FRAMES == 24
MID_SENTENCE_MIN_FRAMES == 6
MID_SENTENCE_MAX_FRAMES == 8
MIN_VOICE_CHUNK_MS == 700
MIN_SILENCE_LEN == 60
SEARCH_WINDOW == 600
SEARCH_OVERLAP == 200
WORD_TAIL_CLAMP == 50
END_FRAMES_THRESHOLD == 20
MID_KEEP_FRAMES == 6
TAIL_CHECK_MS == 5000
TAIL_MIN_SILENCE_LEN == 100
TAIL_NEAR_END_MS == 50
TAIL_KEEP_MS == 500
PRESERVE_MS == 30
SHORT_SILENCE_MS == 60

(* Bounds of the model *)

MaxWords == 2       \* aligned words per run
WordLen == 50       \* duration of each modelled word, ms
TailNoise == 30     \* non-silent audio after the last grid point, ms

\* Instants at which a detected silence may start or end.
SilenceGrid == {0, 660, 720, 800, 1000, 6400, 7000}
\* Instants at which an aligned word may end.
WordEndGrid == {100, 700, 800, 860, 1100}
\* Values of punctuation_after the aligner can give (a subset of its marks).
PunctChoices == {"", ".", "...", ","}

-----------------------------------------------------------------------------
(* Helpers *)

Max(a, b) == IF a >= b THEN a ELSE b
Min(a, b) == IF a <= b THEN a ELSE b
Abs(x) == IF x < 0 THEN -x ELSE x

RECURSIVE SumSeq(_)
SumSeq(s) == IF s = <<>> THEN 0 ELSE Head(s) + SumSeq(Tail(s))


RECURSIVE SortedSeq(_)
\* The elements of a finite set of integers, ascending.
SortedSeq(S) ==
    IF S = {} THEN <<>>
    ELSE LET m == CHOOSE x \in S : \A y \in S : x <= y
         IN  <<m>> \o SortedSeq(S \ {m})

-----------------------------------------------------------------------------
(* Inputs of one run *)

MaxSilences == 2    \* detected silences per run

GridEnd == CHOOSE x \in SilenceGrid : \A y \in SilenceGrid : y <= x

\* A silence dict as built at processor.py 264-272 ('used' is absent until
\* a pass sets it; sil.get('used') then reads as false).
SilenceDict(s, e) == [start |-> s, end |-> e, len |-> e - s, used |-> FALSE]

\* detect_silence returns ascending, non-overlapping, separated ranges, each
\* at least min_silence_len long.
SilenceLists ==
    { [k \in 1..(Cardinality(P) \div 2) |->
          SilenceDict(SortedSeq(P)[2*k - 1], SortedSeq(P)[2*k])] :
      P \in { Q \in SUBSET SilenceGrid :
                /\ Cardinality(Q) % 2 = 0
                /\ Cardinality(Q) <= 2 * MaxSilences
                /\ \A k \in 1..(Cardinality(Q) \div 2) :
                      SortedSeq(Q)[2*k] - SortedSeq(Q)[2*k - 1] >= MIN_SILENCE_LEN } }

AlignedWord(e, p) == [start_ms |-> e - WordLen, end_ms |-> e, punctuation_after |-> p]

\* Word sequences ordered by time: each word starts no earlier than the
\* previous one ends.
WordLists ==
    { [k \in 1..Cardinality(E) |-> AlignedWord(SortedSeq(E)[k], f[k])] :
      E \in { F \in SUBSET WordEndGrid :
                /\ Cardinality(F) <= MaxWords
                /\ \A a, b \in F : a < b => a <= b - WordLen },
      f \in [1..MaxWords -> PunctChoices] }

-----------------------------------------------------------------------------
(* Duration policy *)

\* get_punctuation_config(punct)['type'].  `punct in '.!?'` and
\* `punct in ',:;'` are substring tests.
GetPunctuationType(punct) ==
    IF punct = "" THEN "none"
    ELSE IF punct \in {".", "!", "?", ".!", "!?", ".!?"} \/ punct = "..." THEN "end"
    ELSE IF punct \in {",", ":", ";", ",:", ":;", ",:;"} THEN "mid"
    ELSE "none"

\* The values random.randint(lo, hi) * frame_ms can take.
RandomFrames(lo, hi, frame_ms) == { f * frame_ms : f \in lo..hi }

\* calculate_hybrid_pause with the mid-sentence cap applied from
\* MID_SENTENCE_MIN_FRAMES on instead of MID_SENTENCE_MAX_FRAMES.
CalculateHybridPauseCapFromMin(original_silence_ms, punct, frame_ms) ==
    LET frame_len == original_silence_ms \div frame_ms
        type == GetPunctuationType(punct)
    IN  IF type = "end" THEN
            IF frame_len > END_SENTENCE_FRAMES
            THEN {END_SENTENCE_FRAMES * frame_ms}
            ELSE {original_silence_ms}
        ELSE IF type = "mid" THEN
            IF frame_len > MID_SENTENCE_MIN_FRAMES
            THEN RandomFrames(MID_SENTENCE_MIN_FRAMES, MID_SENTENCE_MAX_FRAMES, frame_ms)
            ELSE {original_silence_ms}
        ELSE
            IF frame_len <= 7 THEN {original_silence_ms}
            ELSE IF frame_len <= 23
            THEN RandomFrames(MID_SENTENCE_MIN_FRAMES, MID_SENTENCE_MAX_FRAMES, frame_ms)
            ELSE {END_SENTENCE_FRAMES * frame_ms}
\* calculate_hybrid_pause: the set of values it can return.
CalculateHybridPause(original_silence_ms, punct, frame_ms) ==
    LET frame_len == original_silence_ms \div frame_ms
        type == GetPunctuationType(punct)
    IN  IF type = "end" THEN
            IF frame_len > END_SENTENCE_FRAMES
            THEN {END_SENTENCE_FRAMES * frame_ms}
            ELSE {original_silence_ms}
        ELSE IF type = "mid" THEN
            IF frame_len > MID_SENTENCE_MAX_FRAMES
            THEN RandomFrames(MID_SENTENCE_MIN_FRAMES, MID_SENTENCE_MAX_FRAMES, frame_ms)
            ELSE {original_silence_ms}
        ELSE
            IF frame_len <= 7 THEN {original_silence_ms}
            ELSE IF frame_len <= 23
            THEN RandomFrames(MID_SENTENCE_MIN_FRAMES, MID_SENTENCE_MAX_FRAMES, frame_ms)
            ELSE {END_SENTENCE_FRAMES * frame_ms}

\* The threshold taken from END_EXTEND_THRESHOLD (22 frames) instead of 20.
EndThresholdAt22Frames(len) == len >= 22 * FRAME_MS
\* silence_frames >= 20 (line 347).  silence_frames = len / FRAME_MS is a
\* true division, so silence_frames >= n  <=>  len >= n * FRAME_MS, and
\* likewise for <= and <.
EndThresholdReached(len) == len >= END_FRAMES_THRESHOLD * FRAME_MS

\* Punctuation pass, end mark (processor.py 341-353).
EndTargetPause(len) ==
    IF EndThresholdReached(len) THEN {24 * FRAME_MS} ELSE {len}

\* Punctuation pass, mid mark (processor.py 355-374).
MidTargetPause(len) ==
    IF len <= MID_KEEP_FRAMES * FRAME_MS THEN {len}
    ELSE IF len < END_FRAMES_THRESHOLD * FRAME_MS
    THEN RandomFrames(6, 8, FRAME_MS)
    ELSE {24 * FRAME_MS}

\* target_pause of the punctuation pass (processor.py 341-376).
TargetPauses(punct, len) ==
    LET type == GetPunctuationType(punct)
    IN  IF type = "end" THEN EndTargetPause(len)
        ELSE IF type = "mid" THEN MidTargetPause(len)
        ELSE CalculateHybridPause(len, "", FRAME_MS)

-----------------------------------------------------------------------------
(* Step 4: punctuation pass (processor.py 300-391) *)

\* The silences starting within [word_end - 200, word_end + 600], used or not.
NearSilencesIgnoringUsed(word_end) ==
    { j \in 1..Len(silences) :
        /\ -SEARCH_OVERLAP <= silences[j].start - word_end
        /\ silences[j].start - word_end <= SEARCH_WINDOW }
\* The silences the search loop considers for a word: not used, and
\* starting within [word_end - 200, word_end + 600].
NearSilences(word_end) ==
    { j \in 1..Len(silences) :
        /\ ~silences[j].used
        /\ -SEARCH_OVERLAP <= silences[j].start - word_end
        /\ silences[j].start - word_end <= SEARCH_WINDOW }

\* best_silence taken as the first unused silence of the window, whatever
\* its distance.
BestSilenceFirstFound(word_end) ==
    LET C == NearSilences(word_end)
    IN  IF C = {} THEN 0 ELSE CHOOSE j \in C : \A k \in C : j <= k

\* best_silence: the first silence of minimal |dist| (the loop replaces the
\* best only on a strictly smaller |dist|); 0 when there is none.
BestSilence(word_end) ==
    LET C == NearSilences(word_end)
        D(j) == Abs(silences[j].start - word_end)
    IN  IF C = {} THEN 0
        ELSE CHOOSE j \in C :
                \A k \in C : D(j) < D(k) \/ (D(j) = D(k) /\ j <= k)

\* The edit point dict of the punctuation pass (processor.py 378-386).
\* sil is a history field: the index of the silence the point was built from.
PunctEditPoint(w, b, target_pause) ==
    [ word_end      |-> w.end_ms,
      punct         |-> w.punctuation_after,
      silence_start |-> Max(silences[b].start, w.end_ms - WORD_TAIL_CLAMP),
      silence_end   |-> silences[b].end,
      original_len  |-> silences[b].len,
      target_len    |-> target_pause,
      tts_error     |-> FALSE,
      sil           |-> b ]

\* One iteration of `for i, w in enumerate(aligned_words)`.
PunctuationPass ==
    /\ pc = "punct"
    /\ i <= Len(aligned_words)
    /\ LET w == aligned_words[i]
           b == BestSilence(w.end_ms)
       IN  IF w.punctuation_after = "" \/ b = 0
           THEN UNCHANGED <<silences, edit_points>>
           ELSE \E target_pause \in TargetPauses(w.punctuation_after, silences[b].len) :
                  /\ silences' = [silences EXCEPT ![b].used = TRUE]
                  /\ edit_points' = Append(edit_points, PunctEditPoint(w, b, target_pause))
    /\ i' = i + 1
    /\ UNCHANGED <<pc, audio_len, aligned_words, result, cursor>>
    /\ UNCHANGED <<alignVars, fastVars, policyVars, runVars, restVars>>

\* The loop is exhausted: on to step 4.5.
PunctuationPassDone ==
    /\ pc = "punct"
    /\ i > Len(aligned_words)
    /\ pc' = "anomaly"
    /\ i' = 1
    /\ UNCHANGED <<audio_len, silences, aligned_words, edit_points, result, cursor>>
    /\ UNCHANGED <<alignVars, fastVars, policyVars, runVars, restVars>>

-----------------------------------------------------------------------------
(* Step 4.5: anomaly (TTS error) pass (processor.py 397-442) *)

GAP_TOLERANCE_MS == 50

\* The gap taken without the 50 ms tolerance on either side.
SilencesInGapNoTolerance(current_word, next_word) ==
    { j \in 1..Len(silences) :
        /\ silences[j].start >= current_word.end_ms
        /\ silences[j].end <= next_word.start_ms }

\* The silences lying within the gap between two words, used or not.
SilencesInGap(current_word, next_word) ==
    { j \in 1..Len(silences) :
        /\ silences[j].start >= current_word.end_ms - GAP_TOLERANCE_MS
        /\ silences[j].end <= next_word.start_ms + GAP_TOLERANCE_MS }

\* matching_silence without the test of the used flag.
MatchingSilenceIgnoringUsed(current_word, next_word) ==
    LET C == SilencesInGap(current_word, next_word)
    IN  IF C = {} THEN 0 ELSE CHOOSE j \in C : \A k \in C : j <= k

\* matching_silence: the first unused silence within the gap; 0 when none.
MatchingSilence(current_word, next_word) ==
    LET C == { j \in SilencesInGap(current_word, next_word) : ~silences[j].used }
    IN  IF C = {} THEN 0 ELSE CHOOSE j \in C : \A k \in C : j <= k

\* The edit point dict of the anomaly pass (processor.py 428-439).
TtsEditPoint(current_word, m) ==
    [ word_end      |-> current_word.end_ms,
      punct         |-> "",
      silence_start |-> silences[m].start + TTS_ERROR_HEAD_MS,
      silence_end   |-> silences[m].end - TTS_ERROR_TAIL_MS,
      original_len  |-> silences[m].len,
      target_len    |-> Min(silences[m].len, TTS_ERROR_TARGET_MS),
      tts_error     |-> TRUE,
      sil           |-> m ]

\* One iteration of `for i in range(len(aligned_words) - 1)`.
AnomalyPass ==
    /\ pc = "anomaly"
    /\ i <= Len(aligned_words) - 1
    /\ LET current_word == aligned_words[i]
           next_word == aligned_words[i + 1]
           gap_ms == next_word.start_ms - current_word.end_ms
           m == MatchingSilence(current_word, next_word)
       IN  IF current_word.punctuation_after # ""
              \/ gap_ms < TTS_ERROR_THRESHOLD_MS
              \/ m = 0
           THEN UNCHANGED <<silences, edit_points>>
           ELSE /\ silences' = [silences EXCEPT ![m].used = TRUE]
                /\ edit_points' = Append(edit_points, TtsEditPoint(current_word, m))
    /\ i' = i + 1
    /\ UNCHANGED <<pc, audio_len, aligned_words, result, cursor>>
    /\ UNCHANGED <<alignVars, fastVars, policyVars, runVars, restVars>>

AnomalyPassDone ==
    /\ pc = "anomaly"
    /\ i > Len(aligned_words) - 1
    /\ pc' = "filter"
    /\ UNCHANGED <<audio_len, silences, aligned_words, i, edit_points, result, cursor>>
    /\ UNCHANGED <<alignVars, fastVars, policyVars, runVars, restVars>>

-----------------------------------------------------------------------------
(* Step 4.8: tiny-voice-chunk filter (processor.py 447-484) *)

RECURSIVE InsertByStart(_, _)
\* x placed after every element whose silence_start is <= its own.
InsertByStart(sorted, x) ==
    IF sorted = <<>> THEN <<x>>
    ELSE IF Head(sorted).silence_start <= x.silence_start
         THEN <<Head(sorted)>> \o InsertByStart(Tail(sorted), x)
         ELSE <<x>> \o sorted

RECURSIVE SortByStart(_)
\* list.sort(key=lambda x: x['silence_start']): a stable sort.
SortByStart(eps) ==
    IF eps = <<>> THEN <<>>
    ELSE InsertByStart(SortByStart(SubSeq(eps, 1, Len(eps) - 1)), eps[Len(eps)])

\* The drop test of the sweep.
TinyVoiceChunk(voice_len) == 0 < voice_len /\ voice_len < MIN_VOICE_CHUNK_MS

RECURSIVE Sweep(_, _)
\* final_edit_points of the sweep over `eps`, entered with last_silence_end.
Sweep(eps, last_silence_end) ==
    IF eps = <<>> THEN <<>>
    ELSE LET ep == Head(eps)
             voice_len == ep.silence_start - last_silence_end
         IN  IF TinyVoiceChunk(voice_len)
             THEN Sweep(Tail(eps), last_silence_end)
             ELSE <<ep>> \o Sweep(Tail(eps), ep.silence_end)

\* The filter with final_edit_points never taken: the list is only sorted.
FilteredEditPointsNotTaken(eps) == SortByStart(eps)
\* Lines 449-484: sort, sweep, take final_edit_points when something was
\* removed, sort again.
FilteredEditPoints(eps) ==
    LET sorted == SortByStart(eps)
        final_edit_points == Sweep(sorted, 0)
        removed_count == Len(sorted) - Len(final_edit_points)
    IN  SortByStart(IF removed_count > 0 THEN final_edit_points ELSE sorted)

FilterTinyVoiceChunks ==
    /\ pc = "filter"
    /\ edit_points' = FilteredEditPoints(edit_points)
    /\ pc' = "rebuild"
    /\ i' = 1
    /\ result' = <<>>
    /\ cursor' = 0
    /\ UNCHANGED <<audio_len, silences, aligned_words>>
    /\ UNCHANGED <<alignVars, fastVars, policyVars, runVars, restVars>>

-----------------------------------------------------------------------------
(* Step 5: reconstruction (processor.py 486-567) *)

\* A slice [from, to) of the source track.
Src(from, to) == [src |-> TRUE, from |-> from, to |-> to]
\* n ms of synthetic silence.
Syn(n) == [src |-> FALSE, from |-> 0, to |-> n]

SegLen(seg) == seg.to - seg.from

RECURSIVE Duration(_)
\* len(segment), ms.
Duration(segs) == IF segs = <<>> THEN 0 ELSE SegLen(Head(segs)) + Duration(Tail(segs))

\* A position of a slice: clamped to the track, a negative one counted
\* from the end.
Position(val) ==
    LET v == Min(val, audio_len)
    IN  IF v < 0 THEN audio_len - Abs(v) ELSE v

\* audio[a:b] of the source track; empty when the bounds are inverted.
AudioSlice(a, b) ==
    IF Position(a) < Position(b) THEN <<Src(Position(a), Position(b))>> ELSE <<>>

\* AudioSegment.silent(duration=n), appended only when n > 0.
Silent(n) == IF n > 0 THEN <<Syn(n)>> ELSE <<>>

\* The whole span emitted for every entry, whatever its original length.
AdjustedSilenceWholeSpan(ep) ==
    IF ep.target_len > 0
    THEN AudioSlice(ep.silence_start, ep.silence_end)
         \o Silent(Max(0, ep.target_len - ep.original_len))
    ELSE <<>>
\* The adjusted silence emitted for an edit point (lines 502-552; the
\* inject_mode and no_punct_mode keys are never set, so both read False).
AdjustedSilence(ep) ==
    IF ep.target_len > 0 THEN
        IF ep.original_len > SHORT_SILENCE_MS THEN
            LET head_preserve == Min(PRESERVE_MS, ep.original_len \div 2)
                tail_preserve == Min(PRESERVE_MS, ep.original_len \div 2)
                mid_silence == Max(0, ep.target_len - head_preserve - tail_preserve)
            IN  AudioSlice(ep.silence_start, ep.silence_start + head_preserve)
                \o Silent(mid_silence)
                \o AudioSlice(ep.silence_end - tail_preserve, ep.silence_end)
        ELSE
            LET extra == Max(0, ep.target_len - ep.original_len)
            IN  AudioSlice(ep.silence_start, ep.silence_end) \o Silent(extra)
    ELSE <<>>

\* One iteration of `for i, ep in enumerate(edit_points)`.
Rebuild ==
    /\ pc = "rebuild"
    /\ i <= Len(edit_points)
    /\ LET ep == edit_points[i]
           chunk == IF ep.silence_start > cursor
                    THEN AudioSlice(cursor, ep.silence_start)
                    ELSE <<>>
       IN  /\ result' = result \o chunk \o AdjustedSilence(ep)
           /\ cursor' = ep.silence_end
    /\ i' = i + 1
    /\ UNCHANGED <<pc, audio_len, silences, aligned_words, edit_points>>
    /\ UNCHANGED <<alignVars, fastVars, policyVars, runVars, restVars>>

\* Lines 561-567: the remaining audio after the last edit point.
CopyRemaining ==
    /\ pc = "rebuild"
    /\ i > Len(edit_points)
    /\ result' = result \o (IF cursor < audio_len
                            THEN AudioSlice(cursor, audio_len)
                            ELSE <<>>)
    /\ pc' = "trim"
    /\ UNCHANGED <<audio_len, silences, aligned_words, i, edit_points, cursor>>
    /\ UNCHANGED <<alignVars, fastVars, policyVars, runVars, restVars>>

-----------------------------------------------------------------------------
(* Trailing-silence post-pass (processor.py 569-580) *)

\* The source track is below the silence threshold exactly on the detected
\* silences; synthetic silence is below it everywhere.
QuietAt(ms) == \E j \in 1..Len(silences) : silences[j].start <= ms /\ ms < silences[j].end

\* The next instant after `ms`, up to `to`, where the source may change
\* between quiet and loud.
NextBoundary(ms, to) ==
    LET B == { b \in { silences[j].start : j \in 1..Len(silences) }
                     \cup { silences[j].end : j \in 1..Len(silences) } :
               ms < b /\ b < to }
    IN  IF B = {} THEN to ELSE CHOOSE b \in B : \A c \in B : b <= c

RECURSIVE SrcRuns(_, _)
\* The quiet/loud runs of the source slice [from, to).
SrcRuns(from, to) ==
    IF from >= to THEN <<>>
    ELSE LET nb == NextBoundary(from, to)
         IN  <<[quiet |-> QuietAt(from), n |-> nb - from]>> \o SrcRuns(nb, to)

RECURSIVE Runs(_)
\* The quiet/loud runs of an assembled audio, segment by segment.
Runs(segs) ==
    IF segs = <<>> THEN <<>>
    ELSE LET seg == Head(segs)
         IN  (IF seg.src THEN SrcRuns(seg.from, seg.to)
              ELSE IF seg.to > 0 THEN <<[quiet |-> TRUE, n |-> seg.to]>> ELSE <<>>)
             \o Runs(Tail(segs))

RECURSIVE MergeRuns(_)
\* Adjacent runs of the same kind joined.
MergeRuns(rs) ==
    IF Len(rs) < 2 THEN rs
    ELSE IF rs[1].quiet = rs[2].quiet
         THEN MergeRuns(<<[quiet |-> rs[1].quiet, n |-> rs[1].n + rs[2].n]>> \o SubSeq(rs, 3, Len(rs)))
         ELSE <<rs[1]>> \o MergeRuns(Tail(rs))

RECURSIVE LastRuns(_, _)
\* The runs of the last `ms` milliseconds.
LastRuns(rs, ms) ==
    IF rs = <<>> \/ ms <= 0 THEN <<>>
    ELSE LET last == rs[Len(rs)]
         IN  IF last.n >= ms
             THEN <<[quiet |-> last.quiet, n |-> ms]>>
             ELSE LastRuns(SubSeq(rs, 1, Len(rs) - 1), ms - last.n) \o <<last>>

RECURSIVE DetectFrom(_, _, _)
\* detect_silence over runs starting at `offset`: the quiet runs at least
\* min_silence_len long, as <<start, end>>.
DetectFrom(rs, offset, min_silence_len) ==
    IF rs = <<>> THEN <<>>
    ELSE (IF Head(rs).quiet /\ Head(rs).n >= min_silence_len
          THEN << <<offset, offset + Head(rs).n>> >> ELSE <<>>)
         \o DetectFrom(Tail(rs), offset + Head(rs).n, min_silence_len)

DetectSilence(rs, min_silence_len) == DetectFrom(MergeRuns(rs), 0, min_silence_len)

RECURSIVE TakeFirst(_, _)
\* segs[:ms]
TakeFirst(segs, ms) ==
    IF segs = <<>> \/ ms <= 0 THEN <<>>
    ELSE LET seg == Head(segs)
         IN  IF SegLen(seg) >= ms
             THEN <<[seg EXCEPT !.to = seg.from + ms]>>
             ELSE <<seg>> \o TakeFirst(Tail(segs), ms - SegLen(seg))

\* trim_amount without the test that the silence reaches near the end.
TrimAmountNoNearEndTest(res) ==
    LET chunk_len == Min(TAIL_CHECK_MS, Duration(res))
        tail_silences == DetectSilence(LastRuns(Runs(res), chunk_len), TAIL_MIN_SILENCE_LEN)
    IN  IF tail_silences = <<>> THEN 0
        ELSE LET last_sil == tail_silences[Len(tail_silences)]
                 sil_dur == last_sil[2] - last_sil[1]
             IN  IF sil_dur > TAIL_KEEP_MS THEN sil_dur - TAIL_KEEP_MS ELSE 0
\* trim_amount of the post-pass; 0 when nothing is trimmed.
TrimAmount(res) ==
    LET chunk_len == Min(TAIL_CHECK_MS, Duration(res))
        tail_check == LastRuns(Runs(res), chunk_len)
        tail_silences == DetectSilence(tail_check, TAIL_MIN_SILENCE_LEN)
    IN  IF tail_silences = <<>> THEN 0
        ELSE LET last_sil == tail_silences[Len(tail_silences)]
                 sil_dur == last_sil[2] - last_sil[1]
             IN  IF last_sil[2] >= chunk_len - TAIL_NEAR_END_MS /\ sil_dur > TAIL_KEEP_MS
                 THEN sil_dur - TAIL_KEEP_MS
                 ELSE 0

TrimTrailingSilence ==
    /\ pc = "trim"
    /\ result' = (IF TrimAmount(result) > 0
                  THEN TakeFirst(result, Duration(result) - TrimAmount(result))
                  ELSE result)
    /\ pc' = "export"
    /\ UNCHANGED <<audio_len, silences, aligned_words, i, edit_points, cursor>>
    /\ UNCHANGED <<alignVars, fastVars, policyVars, runVars, restVars>>

\* result.export(...) (processor.py 583-585).
Export ==
    /\ pc = "export"
    /\ pc' = "done"
    /\ UNCHANGED <<audio_len, silences, aligned_words, i, edit_points, result, cursor>>
    /\ UNCHANGED <<alignVars, fastVars, policyVars, runVars, restVars>>

-----------------------------------------------------------------------------
(* process_audio_smart from step 4 on *)

GuiIdle ==
    /\ gpc = "idle"
    /\ status = <<>>

NoModel == [size |-> "none", device |-> "none", born |-> 0]

WhisperIdle ==
    /\ wpc = "idle"
    /\ calls = 0
    /\ model_size = "none"
    /\ cached_model = NoModel
    /\ cached_model_size = "none"
    /\ built = 0
    /\ model = NoModel
    /\ constructions = 0
    /\ recognitions = 0
    /\ first_error = ""
    /\ raised = "none"
    /\ words = <<>>
    /\ heard = <<>>

TextIdle ==
    /\ xpc = "idle"
    /\ script = <<>>

ConfigIdle ==
    /\ cpc = "idle"
    /\ punct_arg = ""
    /\ config = [type |-> "unset"]
    /\ pause_ms = "unset"

V2Idle == logic_mode = "none"

MaxWorkers == 2     \* run_pipeline threads alive at once

Workers == 1..MaxWorkers

\* VoiceApp.__init__ (voice_app.py 60-61) and create_widgets (159-173): no
\* run yet, the start button enabled, the cancel button disabled.
AppInitial ==
    /\ is_processing = FALSE
    /\ cancel_flag = FALSE
    /\ start_btn = "normal"
    /\ cancel_btn = "disabled"
    /\ worker = [w \in Workers |-> "none"]
    /\ status_label = "ready"

AppsIdle == V2Idle /\ AppInitial

RestIdle == GuiIdle /\ WhisperIdle /\ TextIdle /\ ConfigIdle /\ AppsIdle

FastIdle ==
    /\ silence_ranges = <<>>
    /\ last_end = 0
    /\ segment = <<>>

PolicyIdle ==
    /\ ppc = "idle"
    /\ orig_ms = 0
    /\ test_punct = ""
    /\ hybrid_pause = 0

RunIdle ==
    /\ mode = "none"
    /\ rpc = "idle"
    /\ total = 0
    /\ run_i = 0
    /\ progress = <<>>
    /\ cancel_requested = FALSE
    /\ exported = FALSE
    /\ outcome = "idle"

AlignerIdle ==
    /\ apc = "idle"
    /\ script_words = <<>>
    /\ transcript_words = <<>>
    /\ tw_idx = 0
    /\ script_idx = 0
    /\ aligned = <<>>

Init ==
    /\ RestIdle
    /\ pc = "punct"
    /\ audio_len \in {GridEnd, GridEnd + TailNoise}
    /\ silences \in SilenceLists
    /\ aligned_words \in WordLists
    /\ i = 1
    /\ edit_points = <<>>
    /\ result = <<>>
    /\ cursor = 0
    /\ AlignerIdle
    /\ FastIdle
    /\ PolicyIdle
    /\ RunIdle

Next ==
    \/ PunctuationPass
    \/ PunctuationPassDone
    \/ AnomalyPass
    \/ AnomalyPassDone
    \/ FilterTinyVoiceChunks
    \/ Rebuild
    \/ CopyRemaining
    \/ TrimTrailingSilence
    \/ Export

Spec == Init /\ [][Next]_vars

-----------------------------------------------------------------------------
(* The same run on inputs crowded around two adjacent words *)

\* Instants of silences and of word ends lying within one search window.
DenseSilenceGrid == {560, 620, 660, 720, 7000}
DenseWordEndGrid == {100, 700, 750}

DenseSilenceLists ==
    { [k \in 1..(Cardinality(P) \div 2) |->
          SilenceDict(SortedSeq(P)[2*k - 1], SortedSeq(P)[2*k])] :
      P \in { Q \in SUBSET DenseSilenceGrid :
                /\ Cardinality(Q) % 2 = 0
                /\ Cardinality(Q) <= 2 * MaxSilences
                /\ \A k \in 1..(Cardinality(Q) \div 2) :
                      SortedSeq(Q)[2*k] - SortedSeq(Q)[2*k - 1] >= MIN_SILENCE_LEN } }

DenseWordLists ==
    { [k \in 1..Cardinality(E) |-> AlignedWord(SortedSeq(E)[k], f[k])] :
      E \in { F \in SUBSET DenseWordEndGrid :
                /\ Cardinality(F) <= MaxWords
                /\ \A a, b \in F : a < b => a <= b - WordLen },
      f \in [1..MaxWords -> PunctChoices] }

InitDense ==
    /\ RestIdle
    /\ pc = "punct"
    /\ audio_len \in {GridEnd, GridEnd + TailNoise}
    /\ silences \in DenseSilenceLists
    /\ aligned_words \in DenseWordLists
    /\ i = 1
    /\ edit_points = <<>>
    /\ result = <<>>
    /\ cursor = 0
    /\ AlignerIdle
    /\ FastIdle
    /\ PolicyIdle
    /\ RunIdle

SpecDense == InitDense /\ [][Next]_vars

-----------------------------------------------------------------------------
(* Claims about the edit plan and the reconstruction *)

\* The edit plan is final once the filter and the last sort have run.
PlanResolved == pc \in {"rebuild", "trim", "export", "done"}

\* The reconstruction loop and the copy of the remaining audio have run;
\* the post-pass has not.
Assembled == pc = "trim"

\* C1: in the final edit plan, plan[k].silence_end <= plan[k+1].silence_start
\* for every pair of consecutive entries.
C1_PlanNonOverlap ==
    PlanResolved =>
        \A k \in 1..(Len(edit_points) - 1) :
            edit_points[k].silence_end <= edit_points[k + 1].silence_start

\* C2: in the final edit plan, the voice gap before every entry except the
\* first is either 0 or at least 700 ms.
C2_VoiceChunkFloor ==
    PlanResolved =>
        \A k \in 2..Len(edit_points) :
            LET gap == edit_points[k].silence_start - edit_points[k - 1].silence_end
            IN  gap = 0 \/ gap >= 700

\* Source instants at which the coverage of the source by the output, or
\* the membership in a plan span, can change.
Probes ==
    {0}
    \cup { result[k].from : k \in { n \in 1..Len(result) : result[n].src } }
    \cup { result[k].to : k \in { n \in 1..Len(result) : result[n].src } }
    \cup { edit_points[k].silence_start : k \in 1..Len(edit_points) }
    \cup { edit_points[k].silence_end : k \in 1..Len(edit_points) }

\* p lies in no [silence_start, silence_end) span of the plan.
OutsidePlan(p) ==
    \A k \in 1..Len(edit_points) :
        ~(edit_points[k].silence_start <= p /\ p < edit_points[k].silence_end)

\* The output segments that carry source instant p.
Carriers(p) ==
    { k \in 1..Len(result) : result[k].src /\ result[k].from <= p /\ p < result[k].to }

\* C3: every millisecond of source audio outside the plan's spans is in the
\* assembled output exactly once, and these milliseconds are in source order.
C3_VoiceCopiedOnceInOrder ==
    Assembled =>
        LET P == { p \in Probes : 0 <= p /\ p < audio_len /\ OutsidePlan(p) }
        IN  /\ \A p \in P : Cardinality(Carriers(p)) = 1
            /\ \A p, q \in P :
                  p < q => \A a \in Carriers(p), b \in Carriers(q) : a <= b

\* C4: every edit point handed to the reconstruction loop satisfies
\* 0 <= silence_start <= silence_end <= track duration.
C4_EditPointsWithinTrack ==
    PlanResolved =>
        \A k \in 1..Len(edit_points) :
            /\ 0 <= edit_points[k].silence_start
            /\ edit_points[k].silence_start <= edit_points[k].silence_end
            /\ edit_points[k].silence_end <= audio_len

\* Every entry of the plan has 0 <= silence_start <= silence_end <= track
\* duration, and consecutive entries do not overlap.
WellFormedPlan ==
    /\ \A k \in 1..Len(edit_points) :
          /\ 0 <= edit_points[k].silence_start
          /\ edit_points[k].silence_start <= edit_points[k].silence_end
          /\ edit_points[k].silence_end <= audio_len
    /\ \A k \in 1..(Len(edit_points) - 1) :
          edit_points[k].silence_end <= edit_points[k + 1].silence_start

\* C5: the assembled audio lasts original_duration - sum(original_len)
\* + sum(target_len) over the entries of the edit plan.  Stated for the
\* plans whose entries lie within the track and do not overlap, so that a
\* violation is one of the accounting itself.
C5_LengthAccounting ==
    (Assembled /\ WellFormedPlan) =>
        Duration(result) =
            audio_len
            - SumSeq([k \in 1..Len(edit_points) |-> edit_points[k].original_len])
            + SumSeq([k \in 1..Len(edit_points) |-> edit_points[k].target_len])

\* C7: no two edit points are built from the same silence, over the
\* punctuation pass and the anomaly pass together.
C7_SilenceClaimedOnce ==
    \A a, b \in 1..Len(edit_points) :
        a # b => edit_points[a].sil # edit_points[b].sil

\* A later word took another silence because the one nearest to it was
\* already claimed by an earlier edit point.
C7_Witness ==
    /\ pc = "filter"
    /\ \E a, b \in 1..Len(edit_points) :
          /\ a < b
          /\ ~edit_points[b].tts_error
          /\ edit_points[a].sil \in NearSilencesIgnoringUsed(edit_points[b].word_end)
          /\ Abs(silences[edit_points[a].sil].start - edit_points[b].word_end)
               < Abs(silences[edit_points[b].sil].start - edit_points[b].word_end)

\* The whole source track, as one verbatim copy.
WholeTrack == IF audio_len > 0 THEN <<Src(0, audio_len)>> ELSE <<>>

\* C8 as stated: with an empty edit plan the audio produced is identical to
\* the input audio.
C8_EmptyPlanIdentity ==
    (pc = "done" /\ edit_points = <<>>) => result = WholeTrack

\* A silence longer than 500 ms that ends within 50 ms of the end of the track.
LongTrailingSilences ==
    { j \in 1..Len(silences) :
        silences[j].end >= audio_len - 50 /\ silences[j].len > 500 }

\* C8 amended: with an empty edit plan the assembled audio is identical to
\* the input, and the audio produced is the input cut short only by the
\* post-pass: whole unless a silence longer than 500 ms ends within 50 ms
\* of the end, and then kept at least 500 ms into that silence.
C8_EmptyPlanVerbatimUntilTrim ==
    (PlanResolved /\ edit_points = <<>>) =>
        /\ pc \in {"rebuild", "trim"} => result \in {<<>>, WholeTrack}
        /\ pc = "trim" => result = WholeTrack
        /\ pc \in {"export", "done"} =>
              /\ Len(result) = 1
              /\ LET e == result[1].to
                 IN  /\ result = <<Src(0, e)>>
                     /\ e \in 1..audio_len
                     /\ e < audio_len <=> LongTrailingSilences # {}
                     /\ \A j \in LongTrailingSilences : e >= silences[j].start + 500

\* An empty plan although words were aligned, and the post-pass has trimmed.
C8_Witness ==
    /\ pc = "done"
    /\ edit_points = <<>>
    /\ aligned_words # <<>>
    /\ Duration(result) < audio_len

\* The silence the produced audio ends with, ms.
TrailingSilence(res) ==
    LET rs == MergeRuns(Runs(res))
    IN  IF rs # <<>> /\ rs[Len(rs)].quiet THEN rs[Len(rs)].n ELSE 0

\* C9: after the post-pass the output ends with at most 500 ms of silence.
C9_TrailingSilenceAtMost500 ==
    pc \in {"export", "done"} => TrailingSilence(result) <= 500

-----------------------------------------------------------------------------
(* core/aligner.py: text helpers.  A text is a sequence of characters. *)

LowerLetters == {"a", "b", "c", "d", "x"}
UpperLetters == {"A"}
AccentedLetters == {"à"}
WordChars == LowerLetters \cup UpperLetters \cup AccentedLetters   \* \w
SpaceChars == {" "}                                                \* \s

RECURSIVE SelectChars(_, _)
\* The characters of t that are in S, in order.
SelectChars(t, S) ==
    IF t = <<>> THEN <<>>
    ELSE (IF Head(t) \in S THEN <<Head(t)>> ELSE <<>>) \o SelectChars(Tail(t), S)

\* str.lower()
LowerChar(c) == IF c = "A" THEN "a" ELSE c
Lower(t) == [k \in 1..Len(t) |-> LowerChar(t[k])]

RECURSIVE LStrip(_)
LStrip(t) == IF t # <<>> /\ Head(t) \in SpaceChars THEN LStrip(Tail(t)) ELSE t
RECURSIVE RStrip(_)
RStrip(t) ==
    IF t # <<>> /\ t[Len(t)] \in SpaceChars THEN RStrip(SubSeq(t, 1, Len(t) - 1)) ELSE t
\* str.strip()
Strip(t) == RStrip(LStrip(t))

\* normalize_text: drop what is neither \w nor \s, lowercase, strip.
NormalizeText(t) == Strip(Lower(SelectChars(t, WordChars \cup SpaceChars)))

\* VIETNAMESE_DIACRITICS, on the letters of the model.
FoldDiacritic(c) == IF c = "à" THEN "a" ELSE c
\* _normalize_vietnamese: lowercase, then replace each accented letter.
NormalizeVietnamese(t) == [k \in 1..Len(t) |-> FoldDiacritic(LowerChar(t[k]))]

\* n1 in n2
Contains(n1, n2) ==
    \E o \in 0..(Len(n2) - Len(n1)) : SubSeq(n2, o + 1, o + Len(n1)) = n1

RECURSIVE MatchedChars(_, _, _, _, _, _)
\* Sum of the sizes of SequenceMatcher's matching blocks of a[alo..ahi) and
\* b[blo..bhi) (0-based, as in difflib): the longest common block, the
\* earliest in a and then in b among the longest, then the same to its
\* left and to its right.
MatchedChars(a, alo, ahi, b, blo, bhi) ==
    LET Blocks == { m \in (alo..(ahi - 1)) \X (blo..(bhi - 1)) \X (1..(ahi - alo)) :
                      /\ m[1] + m[3] <= ahi
                      /\ m[2] + m[3] <= bhi
                      /\ SubSeq(a, m[1] + 1, m[1] + m[3]) = SubSeq(b, m[2] + 1, m[2] + m[3]) }
    IN  IF Blocks = {} THEN 0
        ELSE LET best == CHOOSE m \in Blocks :
                            \A n \in Blocks :
                                \/ m[3] > n[3]
                                \/ m[3] = n[3] /\ m[1] < n[1]
                                \/ m[3] = n[3] /\ m[1] = n[1] /\ m[2] <= n[2]
             IN  best[3]
                 + MatchedChars(a, alo, best[1], b, blo, best[2])
                 + MatchedChars(a, best[1] + best[3], ahi, b, best[2] + best[3], bhi)

\* SequenceMatcher(None, n1, n2).ratio() >= 0.75, i.e. 2*M/T >= 3/4.
RatioAtLeastThreshold(n1, n2) ==
    8 * MatchedChars(n1, 0, Len(n1), n2, 0, Len(n2)) >= 3 * (Len(n1) + Len(n2))

\* _fuzzy_match(word1, word2) with the default threshold.
FuzzyMatch(word1, word2) ==
    IF word1 = <<>> \/ word2 = <<>> THEN FALSE
    ELSE IF word1 = word2 THEN TRUE
    ELSE LET n1 == NormalizeVietnamese(word1)
             n2 == NormalizeVietnamese(word2)
         IN  \/ n1 = n2
             \/ Contains(n1, n2) \/ Contains(n2, n1)
             \/ RatioAtLeastThreshold(n1, n2)

\* The test of lines 87 and 98.
WordsMatch(word_text, script_word) ==
    word_text = script_word \/ FuzzyMatch(word_text, script_word)

-----------------------------------------------------------------------------
(* core/aligner.py: align_transcript_with_script (lines 52-115) *)

MaxScript == 4       \* script tokens
MaxTranscript == 2   \* transcript words

\* Tokens extract_words_with_punctuation can return: a lowercase word and a
\* normalized mark.
ScriptTokens ==
    { << <<"a", "b">>, "." >>,
      << <<"a", "b", "c", "d">>, "," >>,
      << <<"c", "d">>, "" >> }

\* Raw texts of transcript words, as the recognizer gives them.
TranscriptTexts ==
    { <<" ", "A", "b">>,            \* normalizes to "ab"
      <<"c", "d", ",">>,            \* normalizes to "cd"
      <<"à", "b", "x", "d">>,       \* close to "abcd", contains "ab"
      <<",">> }                     \* normalizes to the empty word

SeqsUpTo(S, n) == UNION { [1..k -> S] : k \in 0..n }

ScriptLists == SeqsUpTo(ScriptTokens, MaxScript)
TranscriptLists == SeqsUpTo(TranscriptTexts, MaxTranscript)

\* The lookahead reaching one token further (offsets 0..4).
MatchOffsetsUpToFour(word_text, idx) ==
    { k \in 0..4 :
        /\ idx + k < Len(script_words)
        /\ WordsMatch(word_text, script_words[idx + k + 1][1]) }
\* The lookahead window: offset 0 is the token at the cursor, offsets
\* 1..min(4, len - script_idx) - 1 are the loop of line 96.
MatchOffsets(word_text, idx) ==
    { k \in 0..3 :
        /\ idx + k < Len(script_words)
        /\ WordsMatch(word_text, script_words[idx + k + 1][1]) }

\* The cursor set to the offset instead of advanced by it.
AdvanceCursorAbsolute(idx, k) == k + 1
\* script_idx after a match at offset k (lines 89 and 100).
AdvanceCursor(idx, k) == idx + k + 1

\* One iteration of `for tw in transcript_words`.  matched_at is a history
\* field: the script position whose punctuation the word received, or -1.
AlignWord ==
    /\ apc = "walk"
    /\ tw_idx <= Len(transcript_words)
    /\ LET word_text == NormalizeText(transcript_words[tw_idx])
           M == MatchOffsets(word_text, script_idx)
       IN  IF M = {}
           THEN /\ aligned' = Append(aligned, [punctuation_after |-> "", matched_at |-> -1])
                /\ UNCHANGED script_idx
           ELSE LET k == CHOOSE m \in M : \A n \in M : m <= n
                IN  /\ aligned' = Append(aligned,
                            [punctuation_after |-> script_words[script_idx + k + 1][2],
                             matched_at |-> script_idx + k])
                    /\ script_idx' = AdvanceCursor(script_idx, k)
    /\ tw_idx' = tw_idx + 1
    /\ UNCHANGED <<apc, script_words, transcript_words>>
    /\ UNCHANGED <<smartVars, fastVars, policyVars, runVars, restVars>>

\* return aligned
AlignReturn ==
    /\ apc = "walk"
    /\ tw_idx > Len(transcript_words)
    /\ apc' = "done"
    /\ UNCHANGED <<script_words, transcript_words, tw_idx, script_idx, aligned>>
    /\ UNCHANGED <<smartVars, fastVars, policyVars, runVars, restVars>>

SmartIdle ==
    /\ pc = "idle"
    /\ audio_len = 0
    /\ silences = <<>>
    /\ aligned_words = <<>>
    /\ i = 0
    /\ edit_points = <<>>
    /\ result = <<>>
    /\ cursor = 0

InitAlign ==
    /\ RestIdle
    /\ apc = "walk"
    /\ script_words \in ScriptLists
    /\ transcript_words \in TranscriptLists
    /\ tw_idx = 1
    /\ script_idx = 0
    /\ aligned = <<>>
    /\ SmartIdle
    /\ FastIdle
    /\ PolicyIdle
    /\ RunIdle

NextAlign == AlignWord \/ AlignReturn

SpecAlign == InitAlign /\ [][NextAlign]_vars

\* The script positions given to matched words, in transcript order.
RECURSIVE MatchedPositions(_)
MatchedPositions(al) ==
    IF al = <<>> THEN <<>>
    ELSE (IF Head(al).matched_at >= 0 THEN <<Head(al).matched_at>> ELSE <<>>)
         \o MatchedPositions(Tail(al))

StrictlyIncreasing(ps) == \A a, b \in 1..Len(ps) : a < b => ps[a] < ps[b]

\* C6: script_idx never moves backward while the transcript words are
\* walked, the script positions given to matched words increase along the
\* sequence, and so no script token gives its punctuation to two words.
C6_CursorMonotonic ==
    [][ /\ script_idx' >= script_idx
        /\ StrictlyIncreasing(MatchedPositions(aligned')) ]_vars

\* Two words matched at increasing script positions, with the cursor moved
\* past a script word skipped by lookahead.
C6_Witness ==
    /\ apc = "done"
    /\ \E a, b \in 1..Len(aligned) :
          /\ a < b
          /\ aligned[a].matched_at > 0
          /\ aligned[b].matched_at > aligned[a].matched_at
    /\ script_idx > 2

-----------------------------------------------------------------------------
(* Claims about the two candidate passes *)

\* C11: in the punctuation pass a mid mark gives the claimed silence its own
\* length when it is at most 6 frames long, a whole number of frames in
\* [6, 8] when it is 7 to 19 frames long, and 24 frames when it is at least
\* 20 frames long; a silence's frames are counted whole (length // 33), as
\* the duration policy counts them.
C11_MidMarkTarget ==
    \A k \in 1..Len(edit_points) :
        LET ep == edit_points[k]
            frames == ep.original_len \div 33
        IN  (~ep.tts_error /\ ep.punct \in {",", ":", ";"}) =>
                IF frames <= 6 THEN ep.target_len = ep.original_len
                ELSE IF frames <= 19 THEN ep.target_len \in {198, 231, 264}
                ELSE ep.target_len = 792

\* C14: in the punctuation pass a word with punctuation claims, among the
\* unused silences starting within [word_end - 200, word_end + 600], one at
\* minimal |start - word_end|, and exactly one candidate is emitted for it;
\* when there is no such silence, no candidate is emitted and no silence is
\* marked used.
C14_NearestUnusedSilence ==
    [][ (pc = "punct" /\ i <= Len(aligned_words)
           /\ aligned_words[i].punctuation_after # "") =>
        LET word_end == aligned_words[i].end_ms
            C == { j \in 1..Len(silences) :
                     /\ ~silences[j].used
                     /\ silences[j].start >= word_end - 200
                     /\ silences[j].start <= word_end + 600 }
        IN  IF C # {}
            THEN /\ Len(edit_points') = Len(edit_points) + 1
                 /\ SubSeq(edit_points', 1, Len(edit_points)) = edit_points
                 /\ LET ep == edit_points'[Len(edit_points')]
                    IN  /\ ep.sil \in C
                        /\ ep.word_end = word_end
                        /\ ~ep.tts_error
                        /\ \A j \in C : Abs(silences[ep.sil].start - word_end)
                                          <= Abs(silences[j].start - word_end)
                        /\ silences' = [silences EXCEPT ![ep.sil].used = TRUE]
            ELSE /\ edit_points' = edit_points
                 /\ silences' = silences ]_vars

\* The first word passed over an earlier silence of its window for a nearer
\* one, and a later word with punctuation found no silence and emitted
\* nothing.
C14_Witness ==
    /\ pc = "anomaly"
    /\ Len(aligned_words) = 2
    /\ Len(edit_points) = 1
    /\ aligned_words[2].punctuation_after # ""
    /\ edit_points[1].word_end = aligned_words[1].end_ms
    /\ edit_points[1].sil = 2
    /\ ~silences[1].used
    /\ silences[1].start >= aligned_words[1].end_ms - 200

\* C15: the anomaly pass emits a tts_error candidate for a pair of
\* consecutive words exactly when the earlier word has no punctuation, the
\* gap later.start - earlier.end is at least 300 ms and some unused silence
\* has start >= earlier.end - 50 and end <= later.start + 50; its target is
\* min(original silence length, 100).
C15_AnomalyCandidate ==
    [][ (pc = "anomaly" /\ i <= Len(aligned_words) - 1) =>
        LET earlier == aligned_words[i]
            later == aligned_words[i + 1]
            C == { j \in 1..Len(silences) :
                     /\ ~silences[j].used
                     /\ silences[j].start >= earlier.end_ms - 50
                     /\ silences[j].end <= later.start_ms + 50 }
        IN  IF /\ earlier.punctuation_after = ""
               /\ later.start_ms - earlier.end_ms >= 300
               /\ C # {}
            THEN /\ Len(edit_points') = Len(edit_points) + 1
                 /\ SubSeq(edit_points', 1, Len(edit_points)) = edit_points
                 /\ LET ep == edit_points'[Len(edit_points')]
                    IN  /\ ep.tts_error
                        /\ ep.sil \in C
                        /\ ep.original_len = silences[ep.sil].len
                        /\ ep.target_len = Min(ep.original_len, 100)
                        /\ silences' = [silences EXCEPT ![ep.sil].used = TRUE]
            ELSE /\ edit_points' = edit_points
                 /\ silences' = silences ]_vars

\* A tts_error candidate on a silence longer than 100 ms, cut to 100 ms,
\* emitted although the punctuation pass had claimed another silence.
C15_Witness ==
    /\ pc = "filter"
    /\ \E k \in 1..Len(edit_points) :
          /\ edit_points[k].tts_error
          /\ edit_points[k].original_len > 100
          /\ edit_points[k].target_len = 100
    /\ \E k \in 1..Len(edit_points) : ~edit_points[k].tts_error

-----------------------------------------------------------------------------
(* The two candidate passes as functions of the set of claimed silences *)

\* best_silence of the search loop when the silences in `used` are claimed.
BestSilenceGiven(used, word_end) ==
    LET C == { j \in NearSilencesIgnoringUsed(word_end) : j \notin used }
        D(j) == Abs(silences[j].start - word_end)
    IN  IF C = {} THEN 0
        ELSE CHOOSE j \in C :
                \A k \in C : D(j) < D(k) \/ (D(j) = D(k) /\ j <= k)

\* matching_silence of the anomaly loop when the silences in `used` are
\* claimed.
MatchingSilenceGiven(used, current_word, next_word) ==
    LET C == { j \in 1..Len(silences) :
                 /\ j \notin used
                 /\ silences[j].start >= current_word.end_ms - GAP_TOLERANCE_MS
                 /\ silences[j].end <= next_word.start_ms + GAP_TOLERANCE_MS }
    IN  IF C = {} THEN 0 ELSE CHOOSE j \in C : \A k \in C : j <= k

\* A claim: which word took which silence, in which pass.  The target of a
\* candidate follows from its claim (pass, mark and silence length).
Claim(w, j, tts) == [word_end |-> w.end_ms, sil |-> j, tts_error |-> tts]

RECURSIVE PunctPassFrom(_, _)
\* The punctuation loop from word k on (processor.py 300-391), started with
\* the claims and used silences of st.
PunctPassFrom(k, st) ==
    IF k > Len(aligned_words) THEN st
    ELSE LET w == aligned_words[k]
             b == BestSilenceGiven(st.used, w.end_ms)
         IN  IF w.punctuation_after = "" \/ b = 0
             THEN PunctPassFrom(k + 1, st)
             ELSE PunctPassFrom(k + 1,
                      [used   |-> st.used \cup {b},
                       claims |-> st.claims \cup {Claim(w, b, FALSE)}])

RECURSIVE AnomalyPassFrom(_, _)
\* The anomaly loop from pair k on (processor.py 398-442).
AnomalyPassFrom(k, st) ==
    IF k > Len(aligned_words) - 1 THEN st
    ELSE LET current_word == aligned_words[k]
             next_word == aligned_words[k + 1]
             m == MatchingSilenceGiven(st.used, current_word, next_word)
         IN  IF current_word.punctuation_after # ""
                \/ next_word.start_ms - current_word.end_ms < TTS_ERROR_THRESHOLD_MS
                \/ m = 0
             THEN AnomalyPassFrom(k + 1, st)
             ELSE AnomalyPassFrom(k + 1,
                      [used   |-> st.used \cup {m},
                       claims |-> st.claims \cup {Claim(current_word, m, TRUE)}])

NothingClaimed == [used |-> {}, claims |-> {}]

\* The order of the code, and the opposite order.
PunctThenAnomaly == AnomalyPassFrom(1, PunctPassFrom(1, NothingClaimed))
AnomalyThenPunct == PunctPassFrom(1, AnomalyPassFrom(1, NothingClaimed))

\* The claims behind the candidates the run has emitted.
ClaimsOf(eps) ==
    { [word_end |-> eps[k].word_end, sil |-> eps[k].sil,
       tts_error |-> eps[k].tts_error] : k \in 1..Len(eps) }

PunctEligible ==
    UNION { NearSilencesIgnoringUsed(aligned_words[k].end_ms) :
              k \in { n \in 1..Len(aligned_words) :
                        aligned_words[n].punctuation_after # "" } }
AnomalyEligible ==
    UNION { SilencesInGap(aligned_words[k], aligned_words[k + 1]) :
              k \in { n \in 1..(Len(aligned_words) - 1) :
                        /\ aligned_words[n].punctuation_after = ""
                        /\ aligned_words[n + 1].start_ms - aligned_words[n].end_ms
                             >= TTS_ERROR_THRESHOLD_MS } }

-----------------------------------------------------------------------------
(* Claims about the tiny-voice-chunk filter *)

\* The span of the candidate behind a claim (silence_start, silence_end).
CandidateSpan(c) ==
    LET s == silences[c.sil]
    IN  IF c.tts_error
        THEN [silence_start |-> s.start + 50, silence_end |-> s.end - 50, sil |-> c.sil]
        ELSE [silence_start |-> Max(s.start, c.word_end - 50), silence_end |-> s.end,
              sil |-> c.sil]

\* The candidates of the two passes that are not in the final plan.
Dropped ==
    { CandidateSpan(c) :
        c \in { x \in PunctThenAnomaly.claims :
                  \A k \in 1..Len(edit_points) : edit_points[k].sil # x.sil } }

\* The kept entries sorted before a dropped candidate, and the first after it.
KeptBefore(d) ==
    { k \in 1..Len(edit_points) : edit_points[k].silence_start <= d.silence_start }
KeptAfter(d) ==
    { k \in 1..Len(edit_points) : edit_points[k].silence_start > d.silence_start }
PrevKeptEnd(d) ==
    IF KeptBefore(d) = {} THEN 0
    ELSE edit_points[CHOOSE k \in KeptBefore(d) : \A n \in KeptBefore(d) : n <= k].silence_end
NextKeptStart(d) ==
    edit_points[CHOOSE k \in KeptAfter(d) : \A n \in KeptAfter(d) : k <= n].silence_start

\* C17: a candidate is dropped because 0 < voice_len < 700 measured from
\* the previous kept entry (last_silence_end is not moved by a drop), and
\* the source audio from that entry's silence_end to the next kept entry's
\* silence_start is in the output as one contiguous unmodified span, which
\* holds the whole silence of the dropped candidate.
C17_DroppedCandidateFlowsThrough ==
    PlanResolved =>
        \A d \in Dropped :
            /\ 0 < d.silence_start - PrevKeptEnd(d)
            /\ d.silence_start - PrevKeptEnd(d) < 700
            /\ (pc \in {"trim", "export", "done"} /\ KeptAfter(d) # {}) =>
                  /\ \E x \in 1..Len(result) :
                        result[x] = Src(PrevKeptEnd(d), NextKeptStart(d))
                  /\ PrevKeptEnd(d) <= silences[d.sil].start
                  /\ silences[d.sil].end <= NextKeptStart(d)

-----------------------------------------------------------------------------
(* calculate_hybrid_pause, called as TEST 2 of test_imports.py calls it *)

MaxSilenceMs == 860   \* longest original_silence_ms tried

\* The marks of test_puncts (test_imports.py 25): every mark the aligner
\* gives, and a character that is none of them.
TestPuncts == {".", "?", "!", "...", ",", ":", ";", "", "x"}

\* result = calculate_hybrid_pause(orig_ms, punct, FRAME_MS)
CallHybridPause ==
    /\ ppc = "call"
    /\ hybrid_pause' \in CalculateHybridPause(orig_ms, test_punct, FRAME_MS)
    /\ ppc' = "returned"
    /\ UNCHANGED <<orig_ms, test_punct>>
    /\ UNCHANGED <<smartVars, alignVars, fastVars, runVars, restVars>>

InitPolicy ==
    /\ RestIdle
    /\ ppc = "call"
    /\ orig_ms \in 0..MaxSilenceMs
    /\ test_punct \in TestPuncts
    /\ hybrid_pause = 0
    /\ SmartIdle
    /\ AlignerIdle
    /\ FastIdle
    /\ RunIdle

NextPolicy == CallHybridPause

SpecPolicy == InitPolicy /\ [][NextPolicy]_vars

\* C12: with empty punctuation calculate_hybrid_pause returns the original
\* length for a silence of at most 7 frames, a whole number of frames in
\* [7, 9] times frame_ms for 8 to 23 frames, and 24 x frame_ms for 24
\* frames or more.
C12_FallbackPolicy ==
    (ppc = "returned" /\ test_punct = "") =>
        LET frames == orig_ms \div 33
        IN  IF frames <= 7 THEN hybrid_pause = orig_ms
            ELSE IF frames <= 23 THEN hybrid_pause \in {7 * 33, 8 * 33, 9 * 33}
            ELSE hybrid_pause = 24 * 33

\* C33: calculate_hybrid_pause never lengthens a silence: for every original
\* length and every punctuation value, with frame_ms = 33, the value it
\* returns is at most original_silence_ms.
C33_NeverLengthens ==
    ppc = "returned" => hybrid_pause <= orig_ms

\* A mid-sentence pause of nine frames came back as eight frames, the
\* longest value the random cap can give.
C33_Witness ==
    /\ ppc = "returned"
    /\ test_punct = ","
    /\ orig_ms = 9 * FRAME_MS
    /\ hybrid_pause = MID_SENTENCE_MAX_FRAMES * FRAME_MS

-----------------------------------------------------------------------------
(* process_audio_fast (processor.py 27-95) and _apply_v2_logic (655-715) *)

\* config.py
FRAME_RATE == 30
CONFIG_FRAME_MS == 1000 \div FRAME_RATE
MIN_SILENCE_FRAMES == 4
PARA_CUT_MS == CONFIG_FRAME_MS * 24
HEAD_MS_LONG == 200
TAIL_MS_LONG == 100
HEAD_MS_SHORT == 100
TAIL_MS_SHORT == 50

\* Instants at which a silence of the fast mode may start or end: the
\* lengths between them span 6, 7, 13, 24 and 26 frames, among others.
FastSilenceGrid == {0, 200, 440, 1240, 2100, 2300}

FastGridEnd == CHOOSE x \in FastSilenceGrid : \A y \in FastSilenceGrid : y <= x

\* silence_ranges: ascending, separated ranges, each at least
\* min_silence_len = FRAME_MS * MIN_SILENCE_FRAMES long (line 50).
FastSilenceLists ==
    { [k \in 1..(Cardinality(P) \div 2) |->
          <<SortedSeq(P)[2*k - 1], SortedSeq(P)[2*k]>>] :
      P \in { Q \in SUBSET FastSilenceGrid :
                /\ Cardinality(Q) % 2 = 0
                /\ Cardinality(Q) <= 2 * MaxSilences
                /\ \A k \in 1..(Cardinality(Q) \div 2) :
                      SortedSeq(Q)[2*k] - SortedSeq(Q)[2*k - 1]
                        >= FRAME_MS * MIN_SILENCE_FRAMES } }

\* head + synthetic silence + tail, as both shortening branches build it.
HeadMidTail(start, end, target_ms, head, tail) ==
    LET start_head == Min(end, start + head)
        end_tail == Max(start, end - tail)
        used_head == start_head - start
        used_tail == end - end_tail
        mid_sil == Max(0, target_ms - used_head - used_tail)
    IN  AudioSlice(start, start_head) \o Silent(mid_sil) \o AudioSlice(end_tail, end)

\* _apply_v2_logic: the segments it can return.
ApplyV2Logic(start, end, frame_len, silence_len) ==
    IF frame_len <= MID_SENTENCE_MIN_FRAMES THEN {AudioSlice(start, end)}
    ELSE IF frame_len < END_SENTENCE_FRAMES THEN
        { HeadMidTail(start, end, target_ms,
                      Min(HEAD_MS_SHORT, silence_len),
                      Min(TAIL_MS_SHORT,
                          Max(0, silence_len - Min(HEAD_MS_SHORT, silence_len)))) :
            target_ms \in RandomFrames(MID_SENTENCE_MIN_FRAMES,
                                       MID_SENTENCE_MAX_FRAMES, FRAME_MS) }
    ELSE IF frame_len = END_SENTENCE_FRAMES THEN {AudioSlice(start, end)}
    ELSE {HeadMidTail(start, end, PARA_CUT_MS, HEAD_MS_LONG, TAIL_MS_LONG)}

\* One iteration of `for i, (start, end) in enumerate(silence_ranges)`.
FastStep ==
    /\ pc = "fast_loop"
    /\ i <= Len(silence_ranges)
    /\ LET start == silence_ranges[i][1]
           end == silence_ranges[i][2]
           silence_len == end - start
           frame_len == silence_len \div FRAME_MS
           chunk == IF start > last_end THEN AudioSlice(last_end, start) ELSE <<>>
       IN  /\ \E seg \in ApplyV2Logic(start, end, frame_len, silence_len) :
                /\ segment' = seg
                /\ result' = result \o chunk \o seg
           /\ last_end' = end
    /\ i' = i + 1
    /\ UNCHANGED <<pc, audio_len, silence_ranges>>
    /\ UNCHANGED <<silences, aligned_words, edit_points, cursor>>
    /\ UNCHANGED <<alignVars, policyVars, runVars, restVars>>

\* Lines 84-85: the audio after the last silence.
FastCopyRemaining ==
    /\ pc = "fast_loop"
    /\ i > Len(silence_ranges)
    /\ result' = (IF last_end < audio_len
                  THEN result \o AudioSlice(last_end, audio_len)
                  ELSE result)
    /\ pc' = "fast_export"
    /\ UNCHANGED <<audio_len, i, silence_ranges, last_end, segment>>
    /\ UNCHANGED <<silences, aligned_words, edit_points, cursor>>
    /\ UNCHANGED <<alignVars, policyVars, runVars, restVars>>

\* result.export(...) (line 90).
FastExport ==
    /\ pc = "fast_export"
    /\ pc' = "fast_done"
    /\ UNCHANGED <<audio_len, i, result, silence_ranges, last_end, segment>>
    /\ UNCHANGED <<silences, aligned_words, edit_points, cursor>>
    /\ UNCHANGED <<alignVars, policyVars, runVars, restVars>>

InitFast ==
    /\ RestIdle
    /\ pc = "fast_loop"
    /\ audio_len \in {FastGridEnd, FastGridEnd + TailNoise}
    /\ silence_ranges \in FastSilenceLists
    /\ i = 1
    /\ result = <<>>
    /\ last_end = 0
    /\ segment = <<>>
    /\ silences = <<>>
    /\ aligned_words = <<>>
    /\ edit_points = <<>>
    /\ cursor = 0
    /\ AlignerIdle
    /\ PolicyIdle
    /\ RunIdle

NextFast == FastStep \/ FastCopyRemaining \/ FastExport

SpecFast == InitFast /\ [][NextFast]_vars

\* C13: for every detected silence, of length L, the segment that
\* _apply_v2_logic emits in process_audio_fast lasts a time that
\* calculate_hybrid_pause(L, '') can return.
C13_FastModeAppliesPolicy ==
    (pc = "fast_loop" /\ i > 1) =>
        LET L == silence_ranges[i - 1][2] - silence_ranges[i - 1][1]
        IN  Duration(segment) \in CalculateHybridPause(L, "", FRAME_MS)

-----------------------------------------------------------------------------
(* One run of process_audio_fast (27-95) or process_audio_smart (212-614): *)
(* progress reports, cancel polls, failures and the export.  The main loop *)
(* walks `total` items: silence_ranges in fast mode, edit_points in smart  *)
(* mode.  A call into pydub or the recognizer either returns or raises.    *)

MaxItems == 3       \* longest list the main loop walks
MaxReports == 2     \* most progress messages of one transcribe_audio call

RECURSIVE Repeat(_, _)
\* n reports of the same percentage.
Repeat(p, n) == IF n = 0 THEN <<>> ELSE <<p>> \o Repeat(p, n - 1)

\* `if cancel_flag and cancel_flag(): raise InterruptedError` with the poll
\* missing: the run goes on whatever the flag says.
PollIgnored(flag) == "running"
\* `if cancel_flag and cancel_flag(): raise InterruptedError(...)`.
PollOutcome(flag) == IF flag THEN "cancelled" ELSE "running"

\* The percentage of the fast loop used in both modes.
LoopPercentOfFastMode(m, idx, n) == 10 + ((idx + 1) * 85) \div n
\* percent = 10 + int((i + 1) / total * 85)              (fast, line 81)
\* percent = 70 + int((i + 1) / len(edit_points) * 25)   (smart, line 558)
LoopPercent(m, idx, n) ==
    IF m = "fast" THEN 10 + ((idx + 1) * 85) \div n
    ELSE 70 + ((idx + 1) * 25) \div n

\* The alignment report read after the export lacks a key.
AfterExportReportFails(m) == IF m = "smart" THEN "error" ELSE "returned"
\* What follows a successful export: progress 100 and `return result`; in
\* smart mode the alignment report is logged in between (587-612).
AfterExport(m) == "returned"

\* The run ends.
Ends(how) ==
    /\ outcome' = how
    /\ rpc' = "ended"

\* progress_callback(0, ...); AudioSegment.from_file(...)
RunLoad ==
    /\ rpc = "load"
    /\ progress' = Append(progress, 0)
    /\ \/ /\ rpc' = "poll_load"
          /\ UNCHANGED outcome
       \/ Ends("error")
    /\ UNCHANGED <<mode, total, run_i, cancel_requested, exported>>
    /\ UNCHANGED <<smartVars, alignVars, fastVars, policyVars, restVars>>

\* The poll after loading (fast 44-45, smart 250).
PollAfterLoad ==
    /\ rpc = "poll_load"
    /\ IF PollOutcome(cancel_requested) = "cancelled"
       THEN Ends("cancelled")
       ELSE /\ rpc' = "detect"
            /\ UNCHANGED outcome
    /\ UNCHANGED <<mode, total, run_i, progress, cancel_requested, exported>>
    /\ UNCHANGED <<smartVars, alignVars, fastVars, policyVars, restVars>>

\* progress 5; detect_silence(...); progress 10.  The fast mode enters its
\* loop (47-65); the smart mode goes on to the transcription (253-275).
RunDetect ==
    /\ rpc = "detect"
    /\ \/ /\ progress' = progress \o <<5, 10>>
          /\ IF mode = "fast"
             THEN /\ rpc' = "loop"
                  /\ total' \in 0..MaxItems
             ELSE /\ rpc' = "transcribe"
                  /\ UNCHANGED total
          /\ UNCHANGED outcome
       \/ /\ progress' = Append(progress, 5)
          /\ Ends("error")
          /\ UNCHANGED total
    /\ UNCHANGED <<mode, run_i, cancel_requested, exported>>
    /\ UNCHANGED <<smartVars, alignVars, fastVars, policyVars, restVars>>

\* progress 15; transcribe_audio(...), which calls prog_wrapper, that is
\* progress_callback(25, msg), some number of times (278-282).
RunTranscribe ==
    /\ rpc = "transcribe"
    /\ \E n \in 0..MaxReports :
          progress' = progress \o <<15>> \o Repeat(25, n)
    /\ \/ /\ rpc' = "poll_transcribe"
          /\ UNCHANGED outcome
       \/ Ends("error")
    /\ UNCHANGED <<mode, total, run_i, cancel_requested, exported>>
    /\ UNCHANGED <<smartVars, alignVars, fastVars, policyVars, restVars>>

\* The poll after the transcription (283).
PollAfterTranscribe ==
    /\ rpc = "poll_transcribe"
    /\ IF PollOutcome(cancel_requested) = "cancelled"
       THEN Ends("cancelled")
       ELSE /\ rpc' = "align"
            /\ UNCHANGED outcome
    /\ UNCHANGED <<mode, total, run_i, progress, cancel_requested, exported>>
    /\ UNCHANGED <<smartVars, alignVars, fastVars, policyVars, restVars>>

\* progress 40; `aligned_words, alignment_report = align_transcript_with_script(...)`
\* (288-289).  With the aligner of aligner.py, which returns one list, the
\* unpacking raises ValueError, or on a two-word transcript binds two
\* words, reports 50 and raises TypeError at line 300.  When the call
\* yields the pair the line expects, the run reports 50, builds and
\* filters the candidates (292-484), reports 70 and enters the
\* reconstruction loop.
RunAlign ==
    /\ rpc = "align"
    /\ \/ /\ progress' \in {progress \o <<40>>, progress \o <<40, 50>>}
          /\ Ends("error")
          /\ UNCHANGED total
       \/ /\ progress' = progress \o <<40, 50, 70>>
          /\ rpc' = "loop"
          /\ total' \in 0..MaxItems
          /\ UNCHANGED outcome
    /\ UNCHANGED <<mode, run_i, cancel_requested, exported>>
    /\ UNCHANGED <<smartVars, alignVars, fastVars, policyVars, restVars>>

\* The poll at the head of a loop iteration (fast 68-69, smart 491).
PollInLoop ==
    /\ rpc = "loop"
    /\ run_i < total
    /\ IF PollOutcome(cancel_requested) = "cancelled"
       THEN Ends("cancelled")
       ELSE /\ rpc' = "body"
            /\ UNCHANGED outcome
    /\ UNCHANGED <<mode, total, run_i, progress, cancel_requested, exported>>
    /\ UNCHANGED <<smartVars, alignVars, fastVars, policyVars, restVars>>

\* The rest of the iteration, ending with its progress report (fast 71-82,
\* smart 493-559).
LoopBody ==
    /\ rpc = "body"
    /\ progress' = Append(progress, LoopPercent(mode, run_i, total))
    /\ run_i' = run_i + 1
    /\ rpc' = "loop"
    /\ UNCHANGED <<mode, total, cancel_requested, exported, outcome>>
    /\ UNCHANGED <<smartVars, alignVars, fastVars, policyVars, restVars>>

\* After the loop: the remaining audio (and the trailing trim of the smart
\* mode), then progress 98 (fast 84-88, smart 561-583).
LoopExit ==
    /\ rpc = "loop"
    /\ run_i = total
    /\ progress' = Append(progress, 98)
    /\ rpc' = "export"
    /\ UNCHANGED <<mode, total, run_i, cancel_requested, exported, outcome>>
    /\ UNCHANGED <<smartVars, alignVars, fastVars, policyVars, restVars>>

\* result.export(...); progress 100; return (fast 90-95, smart 584-614).
RunExport ==
    /\ rpc = "export"
    /\ \/ /\ exported' = TRUE
          /\ progress' = Append(progress, 100)
          /\ Ends(AfterExport(mode))
       \/ /\ Ends("error")
          /\ UNCHANGED <<exported, progress>>
    /\ UNCHANGED <<mode, total, run_i, cancel_requested>>
    /\ UNCHANGED <<smartVars, alignVars, fastVars, policyVars, restVars>>

\* Whoever owns the flag sets or clears it while the run goes on.
CancelFlagChanges ==
    /\ outcome = "running"
    /\ cancel_requested' = ~cancel_requested
    /\ UNCHANGED <<mode, rpc, total, run_i, progress, exported, outcome>>
    /\ UNCHANGED <<smartVars, alignVars, fastVars, policyVars, restVars>>

InitRun ==
    /\ RestIdle
    /\ mode \in {"fast", "smart"}
    /\ rpc = "load"
    /\ total = 0
    /\ run_i = 0
    /\ progress = <<>>
    /\ cancel_requested = FALSE
    /\ exported = FALSE
    /\ outcome = "running"
    /\ SmartIdle
    /\ AlignerIdle
    /\ FastIdle
    /\ PolicyIdle

NextRun ==
    \/ RunLoad
    \/ PollAfterLoad
    \/ RunDetect
    \/ RunTranscribe
    \/ PollAfterTranscribe
    \/ RunAlign
    \/ PollInLoop
    \/ LoopBody
    \/ LoopExit
    \/ RunExport
    \/ CancelFlagChanges

SpecRun == InitRun /\ [][NextRun]_vars

-----------------------------------------------------------------------------
(* Claims about one run: progress, cancellation, failures *)

\* C18: in one run of process_audio_smart or process_audio_fast the
\* percentages passed to progress_callback never decrease and every one of
\* them lies in 0..100, whatever the number of silences or edit points.
C18_ProgressNonDecreasing ==
    \A a \in 1..Len(progress) :
        /\ progress[a] \in 0..100
        /\ a > 1 => progress[a - 1] <= progress[a]

\* A smart run that walked at least two edit points, heard the recognizer
\* report progress and returned.
C18_Witness ==
    /\ mode = "smart"
    /\ outcome = "returned"
    /\ total >= 2
    /\ \E a \in 1..Len(progress) : progress[a] = 25

\* A poll of cancel_flag is the next step of the run.
PollPending ==
    \/ rpc \in {"poll_load", "poll_transcribe"}
    \/ rpc = "loop" /\ run_i < total

\* C19: whenever a poll of cancel_flag returns true the run ends there by
\* raising InterruptedError; a run ended that way has exported nothing and
\* has never reported progress 100, and nothing happens in it afterwards.
C19_CancelEndsRun ==
    [][/\ (PollPending /\ cancel_requested /\ rpc' # rpc)
            => outcome' = "cancelled"
       /\ outcome' = "cancelled"
            => /\ ~exported'
               /\ \A a \in 1..Len(progress') : progress'[a] # 100
       /\ outcome = "cancelled"
            => UNCHANGED <<rpc, progress, exported, outcome>>]_vars

\* A run cancelled by the poll of its second or a later loop iteration.
C19_Witness ==
    /\ outcome = "cancelled"
    /\ run_i >= 1
    /\ cancel_requested

\* C35: if the cancellation query becomes true before the export step of a
\* run begins and stays true, the run ends cancelled and the output is
\* never exported: no step taken while the flag is up, and stays up,
\* exports the output or lets the run return normally.
C35_CancelBeforeExport ==
    [][(cancel_requested /\ cancel_requested' /\ ~exported)
            => (~exported' /\ outcome' # "returned")]_vars

\* C20: a run that ends by raising an error other than the cancellation has
\* exported no output file: the export is never followed by a failure of
\* the same run.
C20_NoExportOnError ==
    outcome = "error" => ~exported

\* A run that reached the export step, reported 98, and failed there.
C20_Witness ==
    /\ outcome = "error"
    /\ ~exported
    /\ Len(progress) > 0
    /\ progress[Len(progress)] = 98

-----------------------------------------------------------------------------
(* VoiceApp.run_pipeline (voice_app.py 331-388): the call of               *)
(* process_audio_smart or process_audio_fast inside try/except, and the    *)
(* final status the handlers show.  The run itself is the run of SpecRun.  *)

\* `except Exception` placed before `except InterruptedError`.
HandlerExceptionFirst(how) == "error"
\* The except clauses in their order: InterruptedError gives the cancelled
\* status (379-380), any other exception the error status (381-384).
HandlerStatus(how) == IF how = "cancelled" THEN "cancelled" ELSE "error"

\* Lines 333-357 before the call: read the slider, clear the log, log the
\* mode.  Either the call starts or a widget call raises.
GuiPrepare ==
    /\ gpc = "try"
    /\ \/ /\ gpc' = "call"
          /\ rpc' = "load"
          /\ UNCHANGED status
       \/ /\ gpc' = "finally"
          /\ status' = Append(status, HandlerStatus("error"))
          /\ UNCHANGED rpc
    /\ UNCHANGED <<mode, total, run_i, progress, cancel_requested, exported, outcome>>
    /\ UNCHANGED <<smartVars, alignVars, fastVars, policyVars, nonGuiRest>>

\* The call has ended (358-369): on a return the success status is shown
\* (371-372); an exception goes to its handler.
GuiAfterCall ==
    /\ gpc = "call"
    /\ rpc = "ended"
    /\ status' = Append(status, IF outcome = "returned" THEN "success"
                                ELSE HandlerStatus(outcome))
    /\ gpc' = IF outcome = "returned" THEN "notify" ELSE "finally"
    /\ UNCHANGED runVars
    /\ UNCHANGED <<smartVars, alignVars, fastVars, policyVars, nonGuiRest>>

\* After the success status: the output link and the popup (373-377).  A
\* widget call that raises there is caught by `except Exception`.
GuiNotify ==
    /\ gpc = "notify"
    /\ \/ UNCHANGED status
       \/ status' = Append(status, HandlerStatus("error"))
    /\ gpc' = "finally"
    /\ UNCHANGED runVars
    /\ UNCHANGED <<smartVars, alignVars, fastVars, policyVars, nonGuiRest>>

\* finally: is_processing = False and the buttons (385-388).
GuiFinally ==
    /\ gpc = "finally"
    /\ gpc' = "done"
    /\ UNCHANGED status
    /\ UNCHANGED runVars
    /\ UNCHANGED <<smartVars, alignVars, fastVars, policyVars, nonGuiRest>>

\* request_cancel (269-274) while run_pipeline has not reached its finally.
GuiRequestCancel ==
    /\ gpc \in {"try", "call", "notify"}
    /\ ~cancel_requested
    /\ cancel_requested' = TRUE
    /\ UNCHANGED <<mode, rpc, total, run_i, progress, exported, outcome>>
    /\ UNCHANGED guiVars
    /\ UNCHANGED <<smartVars, alignVars, fastVars, policyVars, nonGuiRest>>

\* start_processing has set _cancel_requested = False and started the
\* thread (317-325).
InitGui ==
    /\ AppsIdle
    /\ ConfigIdle
    /\ WhisperIdle
    /\ TextIdle
    /\ gpc = "try"
    /\ status = <<>>
    /\ mode \in {"fast", "smart"}
    /\ rpc = "idle"
    /\ total = 0
    /\ run_i = 0
    /\ progress = <<>>
    /\ cancel_requested = FALSE
    /\ exported = FALSE
    /\ outcome = "running"
    /\ SmartIdle
    /\ AlignerIdle
    /\ FastIdle
    /\ PolicyIdle

NextGui ==
    \/ GuiPrepare
    \/ GuiAfterCall
    \/ GuiNotify
    \/ GuiFinally
    \/ GuiRequestCancel
    \/ RunLoad
    \/ PollAfterLoad
    \/ RunDetect
    \/ RunTranscribe
    \/ PollAfterTranscribe
    \/ RunAlign
    \/ PollInLoop
    \/ LoopBody
    \/ LoopExit
    \/ RunExport

SpecGui == InitGui /\ [][NextGui]_vars

\* C21: in run_pipeline a run that ends by cancellation (InterruptedError)
\* is reported through the cancelled status and never through the error or
\* the success status, and a run that ends by any other exception is never
\* reported as cancelled.
C21_CancelledReportedAsCancelled ==
    /\ (outcome = "cancelled" /\ gpc \in {"finally", "done"})
            => status = <<"cancelled">>
    /\ outcome = "cancelled"
            => \A a \in 1..Len(status) : status[a] = "cancelled"
    /\ outcome # "cancelled"
            => \A a \in 1..Len(status) : status[a] # "cancelled"

\* run_pipeline finished after a run cancelled inside the main loop.
C21_Witness ==
    /\ gpc = "done"
    /\ outcome = "cancelled"
    /\ run_i >= 1
    /\ status = <<"cancelled">>

-----------------------------------------------------------------------------
(* transcriber.py: calls of transcribe_audio (143-222), each getting its   *)
(* model from get_whisper_model (27-140).  The model cache is process-wide *)
(* and outlives the calls.  WhisperModel(...) and model.transcribe(...)    *)
(* are external: each attempt either succeeds or raises.                   *)

MaxCalls == 3       \* calls of transcribe_audio in one process
ModelSizes == {"small", "medium", "large-v3-turbo"}

\* str(e) of the errors a recognition attempt can raise.
ErrorMessages ==
    {"ONNX Runtime error", "silero vad failed",
     "Silero VAD: ONNX model missing", "onnxruntime not found",
     "CUDA out of memory"}

\* "ONNX" in error_msg
HasONNX(error_msg) ==
    error_msg \in {"ONNX Runtime error", "Silero VAD: ONNX model missing"}

\* "silero" in error_msg.lower()
HasSilero(error_msg) ==
    error_msg \in {"silero vad failed", "Silero VAD: ONNX model missing"}

\* Every error of the first attempt is retried.
IsVadErrorAnyError(error_msg) == TRUE
\* `if "ONNX" in error_msg or "silero" in error_msg.lower()` (line 191)
IsVadError(error_msg) == HasONNX(error_msg) \/ HasSilero(error_msg)

\* The cached model is returned whatever its size.
CacheHitIgnoringSize(cm, cs, size) == cm # NoModel
\* `if _cached_model is not None and _cached_model_size == model_size` (41)
CacheHit(cm, cs, size) == cm # NoModel /\ cs = size

\* A failed GPU load raises at once, with no CPU attempt.
AfterCudaFailureRaise == "raise"
\* `except Exception as cuda_error:` goes on to the CPU attempt (121-127).
AfterCudaFailure == "cpu"

\* The running call ends by raising `exc`.
CallRaises(exc) ==
    /\ raised' = exc
    /\ wpc' = "idle"

\* transcribe_audio(audio_path, ..., model_size=size): lines 159-162, up to
\* the call of get_whisper_model.
TranscribeStart ==
    /\ wpc = "idle"
    /\ calls < MaxCalls
    /\ \E size \in ModelSizes : model_size' = size
    /\ calls' = calls + 1
    /\ model' = NoModel
    /\ constructions' = 0
    /\ recognitions' = 0
    /\ first_error' = ""
    /\ raised' = "none"
    /\ wpc' = "get_model"
    /\ words' = <<>>
    /\ heard' = <<>>
    /\ UNCHANGED <<cached_model, cached_model_size, built>>
    /\ UNCHANGED <<smartVars, alignVars, fastVars, policyVars, runVars, nonWhisperRest>>

\* get_whisper_model, lines 41-43: the cached model is returned.
ReturnCached ==
    /\ wpc = "get_model"
    /\ CacheHit(cached_model, cached_model_size, model_size)
    /\ model' = cached_model
    /\ wpc' = "transcribe"
    /\ UNCHANGED <<calls, model_size, cached_model, cached_model_size, built,
                   constructions, recognitions, first_error, raised>>
    /\ UNCHANGED heardVars
    /\ UNCHANGED <<smartVars, alignVars, fastVars, policyVars, runVars, nonWhisperRest>>

\* get_whisper_model, lines 45-104: the import, the CUDA paths, the models
\* directory.  The import or the file-system calls may raise.
PrepareLoad ==
    /\ wpc = "get_model"
    /\ ~CacheHit(cached_model, cached_model_size, model_size)
    /\ \/ /\ wpc' = "cuda"
          /\ UNCHANGED raised
       \/ CallRaises("OtherError")
    /\ UNCHANGED <<calls, model_size, cached_model, cached_model_size, built,
                   model, constructions, recognitions, first_error>>
    /\ UNCHANGED heardVars
    /\ UNCHANGED <<smartVars, alignVars, fastVars, policyVars, runVars, nonWhisperRest>>

\* Lines 106-119: WhisperModel(model_size, device="cuda", ...).  On success
\* the model and its size are cached and the model is returned.
LoadCuda ==
    /\ wpc = "cuda"
    /\ constructions' = constructions + 1
    /\ \/ /\ built' = built + 1
          /\ cached_model' = [size |-> model_size, device |-> "cuda", born |-> built']
          /\ cached_model_size' = model_size
          /\ model' = cached_model'
          /\ wpc' = "transcribe"
          /\ UNCHANGED raised
       \/ /\ IF AfterCudaFailure = "cpu"
             THEN wpc' = "cpu" /\ UNCHANGED raised
             ELSE CallRaises("RuntimeError")
          /\ UNCHANGED <<built, cached_model, cached_model_size, model>>
    /\ UNCHANGED <<calls, model_size, recognitions, first_error>>
    /\ UNCHANGED heardVars
    /\ UNCHANGED <<smartVars, alignVars, fastVars, policyVars, runVars, nonWhisperRest>>

\* Lines 127-140: WhisperModel(model_size, device="cpu", ...).  On failure
\* RuntimeError("Model Load Failed: ...") is raised.
LoadCpu ==
    /\ wpc = "cpu"
    /\ constructions' = constructions + 1
    /\ \/ /\ built' = built + 1
          /\ cached_model' = [size |-> model_size, device |-> "cpu", born |-> built']
          /\ cached_model_size' = model_size
          /\ model' = cached_model'
          /\ wpc' = "transcribe"
          /\ UNCHANGED raised
       \/ /\ CallRaises("RuntimeError")
          /\ UNCHANGED <<built, cached_model, cached_model_size, model>>
    /\ UNCHANGED <<calls, model_size, recognitions, first_error>>
    /\ UNCHANGED heardVars
    /\ UNCHANGED <<smartVars, alignVars, fastVars, policyVars, runVars, nonWhisperRest>>

MaxHeard == 2      \* most words one recognition attempt yields

\* The first n words an attempt yields, each marked with its attempt.
Yielded(attempt, n) == [k \in 1..n |-> [attempt |-> attempt, index |-> k]]

\* The handler's loop appending to the list the failed attempt left.
RetryAppends(collected, yielded) == collected \o yielded
\* `words = []` (line 202) and the appends of the handler's loop.
RetryCollects(collected, yielded) == yielded

\* Lines 167-189: model.transcribe(..., vad_filter=True) and the walk over
\* its segments, inside the try.  The segments come from a generator: an
\* error may arrive after some words were appended.  On an error the
\* handler (189-217) either goes on to the attempt without VAD or
\* re-raises.
RecognizeWithVad ==
    /\ wpc = "transcribe"
    /\ recognitions' = recognitions + 1
    /\ \E n \in 0..MaxHeard :
          /\ heard' = Yielded(1, n)
          /\ words' = Yielded(1, n)
    /\ \/ /\ wpc' = "idle"
          /\ UNCHANGED <<first_error, raised>>
       \/ \E error_msg \in ErrorMessages :
             /\ first_error' = error_msg
             /\ IF IsVadError(error_msg)
                THEN wpc' = "retry" /\ UNCHANGED raised
                ELSE CallRaises("RecognizerError")
    /\ UNCHANGED <<calls, model_size, cached_model, cached_model_size, built,
                   model, constructions>>
    /\ UNCHANGED <<smartVars, alignVars, fastVars, policyVars, runVars, nonWhisperRest>>

\* Lines 192-215: model.transcribe(..., vad_filter=False) inside the
\* handler, `words = []` and the walk over the segments; an error there
\* leaves the function.
RecognizeWithoutVad ==
    /\ wpc = "retry"
    /\ recognitions' = recognitions + 1
    /\ \E n \in 0..MaxHeard :
          /\ heard' = Yielded(2, n)
          /\ words' = RetryCollects(words, Yielded(2, n))
    /\ \/ /\ wpc' = "idle"
          /\ UNCHANGED raised
       \/ CallRaises("RecognizerError")
    /\ UNCHANGED <<calls, model_size, cached_model, cached_model_size, built,
                   model, constructions, first_error>>
    /\ UNCHANGED <<smartVars, alignVars, fastVars, policyVars, runVars, nonWhisperRest>>

InitTranscribe ==
    /\ AppsIdle
    /\ ConfigIdle
    /\ WhisperIdle
    /\ GuiIdle
    /\ TextIdle
    /\ RunIdle
    /\ SmartIdle
    /\ AlignerIdle
    /\ FastIdle
    /\ PolicyIdle

NextTranscribe ==
    \/ TranscribeStart
    \/ ReturnCached
    \/ PrepareLoad
    \/ LoadCuda
    \/ LoadCpu
    \/ RecognizeWithVad
    \/ RecognizeWithoutVad

SpecTranscribe == InitTranscribe /\ [][NextTranscribe]_vars

-----------------------------------------------------------------------------
(* Claims about the recognizer: model cache, fallback, retry *)

\* C22: after any sequence of get_whisper_model calls, successful or
\* failed, with any sizes, a model returned for a requested size was
\* constructed for that size: the cached model is reused only when the
\* cached size equals the requested size, and is otherwise replaced by a
\* newly loaded one.
C22_ReturnedModelHasRequestedSize ==
    [][/\ model' # NoModel => model'.size = model_size'
       /\ (model' # model /\ model' # NoModel) =>
            IF cached_model # NoModel /\ cached_model_size = model_size
            THEN /\ model' = cached_model
                 /\ UNCHANGED <<cached_model, cached_model_size, built>>
            ELSE /\ built' = built + 1
                 /\ model'.born = built'
                 /\ cached_model' = model'
                 /\ cached_model_size' = model_size]_vars

\* The third call reuses the model that the second call loaded in place of
\* the first call's model of another size.
C22_Witness ==
    /\ calls = 3
    /\ built = 2
    /\ constructions = 0
    /\ model = cached_model
    /\ model.born = 2
    /\ model.size = model_size

\* C23: in get_whisper_model, when loading on the GPU configuration fails
\* the CPU configuration is attempted exactly once; if it succeeds the call
\* returns that model, and if it also fails the call raises RuntimeError
\* with no further attempt: at most two constructions per call.
C23_CpuFallbackOnce ==
    /\ constructions <= 2
    /\ wpc = "cpu" => constructions = 1
    /\ raised = "RuntimeError" => constructions = 2 /\ model = NoModel
    /\ (constructions = 1 /\ wpc \notin {"cuda", "cpu"}) =>
            /\ raised # "RuntimeError"
            /\ model.device = "cuda"
    /\ (constructions = 2 /\ raised # "RuntimeError") =>
            /\ model.device = "cpu"
            /\ model.size = model_size
            /\ model = cached_model

\* A call whose GPU load failed and whose CPU load succeeded has returned.
C23_Witness ==
    /\ wpc = "idle"
    /\ raised = "none"
    /\ constructions = 2
    /\ model.device = "cpu"

\* C24: transcribe_audio invokes the recognizer at most twice per call; the
\* second attempt, with VAD disabled, happens only when the first raised an
\* error whose message mentions ONNX or silero; any other error of the
\* first attempt, and any error of the second, propagates to the caller.
C24_RetryOnlyOnVadError ==
    /\ [](/\ recognitions <= 2
          /\ (wpc = "retry" \/ recognitions = 2) =>
                HasONNX(first_error) \/ HasSilero(first_error)
          /\ (recognitions = 1 /\ first_error # ""
                /\ ~(HasONNX(first_error) \/ HasSilero(first_error))) =>
                /\ wpc = "idle"
                /\ raised = "RecognizerError")
    /\ [][wpc = "retry" =>
            /\ wpc' = "idle"
            /\ recognitions' = 2
            /\ raised' \in {"none", "RecognizerError"}]_vars

\* A call whose first attempt failed on the VAD and whose second attempt
\* failed too.
C24_Witness ==
    /\ recognitions = 2
    /\ first_error = "silero vad failed"
    /\ raised = "RecognizerError"
    /\ wpc = "idle"

-----------------------------------------------------------------------------
(* The value align_transcript_with_script returns and its unpacking *)

\* `return aligned` (aligner.py line 115): the list of aligned words, and
\* nothing else.
ReturnValue == aligned

\* `aligned_words, alignment_report = <value>` (processor.py line 289):
\* unpacking a list into two targets binds them when the list has exactly
\* two items and raises ValueError otherwise.
UnpackTwo(value) ==
    IF Len(value) = 2
    THEN [ok |-> TRUE, first |-> value[1], second |-> value[2]]
    ELSE [ok |-> FALSE, first |-> <<>>, second |-> <<>>]

\* The keys of the report the claim names.
ReportKeys ==
    {"total_script_words", "total_transcript_words", "matched_count",
     "mismatch_count", "match_rate"}

\* C25: align_transcript_with_script yields both the aligned words and an
\* alignment report (script word count, transcript word count, matched
\* count, mismatch count, match rate) in which matched count plus mismatch
\* count equals the number of transcript words, and process_audio_smart
\* receives the two by unpacking the result.
C25_AlignYieldsWordsAndReport ==
    apc = "done" =>
        LET u == UnpackTwo(ReturnValue)
        IN  /\ u.ok
            /\ ReportKeys \subseteq DOMAIN u.second
            /\ u.second.matched_count + u.second.mismatch_count
                    = Len(transcript_words)

-----------------------------------------------------------------------------
(* The aligner on scripts long enough to have a token beyond the lookahead *)
(* window of the first word *)

LongScript == 5      \* script tokens: offsets 0..4 from the start

\* Transcripts of one or two words.
ShortTranscripts ==
    { <<t>> : t \in TranscriptTexts }
        \cup { <<t, u>> : t \in TranscriptTexts, u \in TranscriptTexts }

InitLookahead ==
    /\ RestIdle
    /\ apc = "walk"
    /\ script_words \in [1..LongScript -> ScriptTokens]
    /\ transcript_words \in ShortTranscripts
    /\ tw_idx = 1
    /\ script_idx = 0
    /\ aligned = <<>>
    /\ SmartIdle
    /\ FastIdle
    /\ PolicyIdle
    /\ RunIdle

SpecLookahead == InitLookahead /\ [][NextAlign]_vars

\* C26: for each transcript word, if it matches the script token at offset
\* k from the cursor for the smallest k in 0..3 (inside the script), the
\* cursor advances by exactly k + 1 and that token's punctuation is given
\* to the word; if no token at offsets 0..3 matches, the cursor is
\* unchanged and the word gets empty punctuation; tokens beyond offset 3
\* are never examined.
C26_LookaheadWindow ==
    [][tw_idx' = tw_idx + 1 =>
        LET word_text == NormalizeText(transcript_words[tw_idx])
            Hits == { k \in 0..3 :
                        /\ script_idx + k < Len(script_words)
                        /\ WordsMatch(word_text, script_words[script_idx + k + 1][1]) }
        IN  /\ Len(aligned') = tw_idx
            /\ IF Hits = {}
               THEN /\ script_idx' = script_idx
                    /\ aligned'[tw_idx].punctuation_after = ""
               ELSE \E k \in Hits :
                      /\ \A n \in Hits : k <= n
                      /\ script_idx' = script_idx + k + 1
                      /\ aligned'[tw_idx].punctuation_after
                            = script_words[script_idx + k + 1][2]]_vars

\* The first word matches the token at offset 4 and none at offsets 0..3:
\* it was left without punctuation and the cursor stayed at 0.
C26_Witness ==
    /\ tw_idx = 2
    /\ script_idx = 0
    /\ Len(script_words) = 5
    /\ aligned[1].matched_at = -1
    /\ aligned[1].punctuation_after = ""
    /\ script_words[5][2] # ""
    /\ WordsMatch(NormalizeText(transcript_words[1]), script_words[5][1])

-----------------------------------------------------------------------------
(* Claims about the first entry of the filter and the rebuilt silences *)

\* C27: the tiny-voice-chunk filter never removes the earliest edit point,
\* the one with the smallest silence_start: the 700 ms check applies only
\* to non-initial edit points.
C27_EarliestEditPointKept ==
    [][(pc = "filter" /\ pc' = "rebuild" /\ edit_points # <<>>) =>
        \E k \in 1..Len(edit_points') :
            /\ edit_points'[k] \in { edit_points[n] : n \in 1..Len(edit_points) }
            /\ \A n \in 1..Len(edit_points) :
                  edit_points'[k].silence_start <= edit_points[n].silence_start]_vars

\* The voice copied before the silence of entry ep (lines 494-500).
VoiceBefore(ep) ==
    IF ep.silence_start > cursor THEN AudioSlice(cursor, ep.silence_start) ELSE <<>>

\* What one loop iteration appended to the output after the voice.
EmittedFor(ep) ==
    SubSeq(result', Len(result) + Len(VoiceBefore(ep)) + 1, Len(result'))

-----------------------------------------------------------------------------
(* core/aligner.py: extract_words_with_punctuation (lines 28-49) *)

MaxScriptChars == 4     \* characters of a script text

\* The ellipsis character U+2026, one character of the text.
Ellipsis == "U+2026"
\* The class [.,!?;:U+2026] of the pattern.
PunctChars == {".", ",", "!", "?", ";", ":", Ellipsis}
\* Characters a script text is made of: a letter, a space, the marks.
ScriptChars == {"A", " "} \cup PunctChars

Scripts == UNION { [1..n -> ScriptChars] : n \in 0..MaxScriptChars }

RECURSIVE RunLength(_, _, _)
\* Length of the longest run of characters of S in t starting at p.
RunLength(t, p, S) ==
    IF p <= Len(t) /\ t[p] \in S THEN 1 + RunLength(t, p + 1, S) ELSE 0

RECURSIVE FindAll(_, _)
\* re.findall(r'(\w+)([.,!?;:U+2026]+)?', t) from position p on: at a word
\* character the longest run of word characters and then the longest run
\* of marks are taken, greedily; any other character is skipped.
FindAll(t, p) ==
    IF p > Len(t) THEN <<>>
    ELSE IF t[p] \notin WordChars THEN FindAll(t, p + 1)
    ELSE LET w == RunLength(t, p, WordChars)
             q == RunLength(t, p + w, PunctChars)
         IN  << <<SubSeq(t, p, p + w - 1), SubSeq(t, p + w, p + w + q - 1)>> >>
             \o FindAll(t, p + w + q)

\* The run kept as it is when it has no ellipsis.
NormalizePunctKeepRun(punct) ==
    IF Contains(<<".", ".", ".">>, punct) \/ Contains(<<Ellipsis>>, punct) THEN "..."
    ELSE IF Len(punct) = 1 THEN punct[1]
    ELSE IF punct # <<>> THEN "run"
    ELSE ""
\* Lines 40-43: '...' for a run with an ellipsis, else the first character.
NormalizePunct(punct) ==
    IF Contains(<<".", ".", ".">>, punct) \/ Contains(<<Ellipsis>>, punct) THEN "..."
    ELSE IF punct # <<>> THEN punct[1]
    ELSE ""

\* extract_words_with_punctuation(script)
ExtractWordsWithPunctuation(t) ==
    LET matches == FindAll(t, 1)
    IN  [k \in 1..Len(matches) |->
            <<Lower(matches[k][1]), NormalizePunct(matches[k][2])>>]

\* The call.
ExtractWords ==
    /\ xpc = "call"
    /\ script_words' = ExtractWordsWithPunctuation(script)
    /\ xpc' = "done"
    /\ UNCHANGED <<apc, transcript_words, tw_idx, script_idx, aligned, script>>
    /\ UNCHANGED <<smartVars, fastVars, policyVars, runVars, nonTextRest>>

InitExtract ==
    /\ AppsIdle
    /\ ConfigIdle
    /\ xpc = "call"
    /\ script \in Scripts
    /\ GuiIdle
    /\ WhisperIdle
    /\ AlignerIdle
    /\ SmartIdle
    /\ FastIdle
    /\ PolicyIdle
    /\ RunIdle

NextExtract == ExtractWords

SpecExtract == InitExtract /\ [][NextExtract]_vars

\* C29: for every script, each token returned by
\* extract_words_with_punctuation has punctuation in
\* {'.', '!', '?', '...', ',', ':', ';', ''}: a punctuation run containing
\* '...' or the ellipsis character becomes '...', and any other non-empty
\* run is reduced to its first character.
C29_PunctuationNormalized ==
    xpc = "done" =>
        LET matches == FindAll(script, 1)
        IN  /\ Len(script_words) = Len(matches)
            /\ \A k \in 1..Len(script_words) :
                  LET run == matches[k][2]
                      punct == script_words[k][2]
                      ellipsis == \/ \E o \in 1..(Len(run) - 2) :
                                        run[o] = "." /\ run[o + 1] = "." /\ run[o + 2] = "."
                                  \/ \E o \in 1..Len(run) : run[o] = Ellipsis
                  IN  /\ punct \in {".", "!", "?", "...", ",", ":", ";", ""}
                      /\ ellipsis => punct = "..."
                      /\ (~ellipsis /\ run # <<>>) => punct = run[1]
                      /\ run = <<>> => punct = ""

\* A script whose word is followed by a run of marks other than an
\* ellipsis, reduced to the run's first mark.
C29_Witness ==
    /\ xpc = "done"
    /\ script = <<"A", "?", ".", ".">>
    /\ script_words = << <<<<"a">>, "?">> >>

-----------------------------------------------------------------------------
(* get_punctuation_config (processor.py 123-147), called and read as in    *)
(* TEST 1 of test_imports.py (lines 25-28)                                 *)

END_EXTEND_THRESHOLD == 22
MID_SKIP_THRESHOLD == 6

\* Arguments of the call: the normalized marks, the empty string, other
\* single characters, and runs of two or three marks.
PunctArgs ==
    {"", ".", "!", "?", "...", ",", ":", ";"}
        \cup {"x", "a", "b", "-", " ", "(", ")", "'", "0", "1", "_", "/"}
        \cup {".!", "!?", ".!?", "?!", ",:", ":;", ",:;", ";,", ".,"}

\* The dict get_punctuation_config(punct) returns when random.randint
\* draws `frames` for a mid mark.
GetPunctuationConfig(p, frames) ==
    LET type == GetPunctuationType(p)
    IN  IF type = "end"
        THEN [type |-> "end",
              target_ms |-> END_SENTENCE_FRAMES * FRAME_MS,
              min_ms |-> END_EXTEND_THRESHOLD * FRAME_MS]
        ELSE IF type = "mid"
        THEN [type |-> "mid",
              target_ms |-> frames * FRAME_MS,
              min_ms |-> MID_SKIP_THRESHOLD * FRAME_MS]
        ELSE [type |-> "none", target_ms |-> "None", min_ms |-> "None"]

\* config = get_punctuation_config(p)   (test_imports.py line 27)
CallPunctuationConfig ==
    /\ cpc = "call"
    /\ \E frames \in MID_SENTENCE_MIN_FRAMES..MID_SENTENCE_MAX_FRAMES :
          config' = GetPunctuationConfig(punct_arg, frames)
    /\ cpc' = "read"
    /\ UNCHANGED <<punct_arg, pause_ms>>
    /\ UNCHANGED <<smartVars, alignVars, fastVars, policyVars, runVars, nonConfigRest>>

\* The keys the test's print reads: config['type'], config['min_frames'],
\* config['max_frames'] (test_imports.py line 28).
KeysRead == {"type", "min_frames", "max_frames"}

\* The print of line 28: a missing key raises KeyError.
TestReadsConfig ==
    /\ cpc = "read"
    /\ cpc' = IF KeysRead \subseteq DOMAIN config THEN "printed" ELSE "KeyError"
    /\ UNCHANGED <<punct_arg, config, pause_ms>>
    /\ UNCHANGED <<smartVars, alignVars, fastVars, policyVars, runVars, nonConfigRest>>

InitConfig ==
    /\ AppsIdle
    /\ cpc = "call"
    /\ punct_arg \in PunctArgs
    /\ config = [type |-> "unset"]
    /\ pause_ms = "unset"
    /\ GuiIdle
    /\ WhisperIdle
    /\ TextIdle
    /\ AlignerIdle
    /\ SmartIdle
    /\ FastIdle
    /\ PolicyIdle
    /\ RunIdle

NextConfig == CallPunctuationConfig \/ TestReadsConfig

SpecConfig == InitConfig /\ [][NextConfig]_vars

\* C30: get_punctuation_config classifies every normalized mark: '.', '!',
\* '?' and '...' give type 'end', ',', ':' and ';' give type 'mid', and the
\* empty string or any other single character gives type 'none'; every
\* returned config carries the fields the test reads (type, min_frames,
\* max_frames).
C30_ConfigClassifiesAndCarriesFields ==
    cpc # "call" =>
        /\ punct_arg \in {".", "!", "?", "..."} => config.type = "end"
        /\ punct_arg \in {",", ":", ";"} => config.type = "mid"
        /\ punct_arg \in {"", "x", "a", "b", "-", " ", "(", ")", "'", "0", "1", "_", "/"}
                => config.type = "none"
        /\ {"type", "min_frames", "max_frames"} \subseteq DOMAIN config
        /\ cpc # "KeyError"

-----------------------------------------------------------------------------
(* get_pause_duration_for_punctuation (processor.py 150-160), called as in *)
(* TEST 3 of test_imports.py (lines 51-55)                                 *)

\* Names bound at module level in processor.py that the function could
\* read as the frame length; FRAME_MS_CONST is bound nowhere.
ModuleNames == {"FRAME_MS", "END_SENTENCE_FRAMES", "MID_SENTENCE_MIN_FRAMES",
                "MID_SENTENCE_MAX_FRAMES"}

\* Lines 155-160 on the dict `cfg`: the subscripts are evaluated before the
\* name FRAME_MS_CONST is looked up; a missing key raises KeyError, an
\* unbound name NameError.
PauseDurationOutcome(cfg, frames) ==
    IF cfg.type = "end"
    THEN IF "max_frames" \notin DOMAIN cfg THEN [raised |-> "KeyError", value |-> "none"]
         ELSE IF "FRAME_MS_CONST" \notin ModuleNames
              THEN [raised |-> "NameError", value |-> "none"]
              ELSE [raised |-> "none", value |-> cfg.max_frames * FRAME_MS]
    ELSE IF cfg.type = "mid"
    THEN IF {"min_frames", "max_frames"} \subseteq DOMAIN cfg
         THEN IF "FRAME_MS_CONST" \notin ModuleNames
              THEN [raised |-> "NameError", value |-> "none"]
              ELSE [raised |-> "none", value |-> frames * FRAME_MS]
         ELSE [raised |-> "KeyError", value |-> "none"]
    ELSE [raised |-> "none", value |-> "None"]

\* config = get_punctuation_config(punct)   (line 155)
LegacyGetsConfig ==
    /\ cpc = "legacy_call"
    /\ \E frames \in MID_SENTENCE_MIN_FRAMES..MID_SENTENCE_MAX_FRAMES :
          config' = GetPunctuationConfig(punct_arg, frames)
    /\ cpc' = "legacy_read"
    /\ UNCHANGED <<punct_arg, pause_ms>>
    /\ UNCHANGED <<smartVars, alignVars, fastVars, policyVars, runVars, nonConfigRest>>

\* Lines 156-160: the return, or the exception.
LegacyReturns ==
    /\ cpc = "legacy_read"
    /\ \E frames \in MID_SENTENCE_MIN_FRAMES..MID_SENTENCE_MAX_FRAMES :
          LET out == PauseDurationOutcome(config, frames)
          IN  /\ cpc' = IF out.raised = "none" THEN "legacy_returned" ELSE out.raised
              /\ pause_ms' = out.value
    /\ UNCHANGED <<punct_arg, config>>
    /\ UNCHANGED <<smartVars, alignVars, fastVars, policyVars, runVars, nonConfigRest>>

InitLegacy ==
    /\ AppsIdle
    /\ cpc = "legacy_call"
    /\ punct_arg \in PunctArgs
    /\ config = [type |-> "unset"]
    /\ pause_ms = "unset"
    /\ GuiIdle
    /\ WhisperIdle
    /\ TextIdle
    /\ AlignerIdle
    /\ SmartIdle
    /\ FastIdle
    /\ PolicyIdle
    /\ RunIdle

NextLegacy == LegacyGetsConfig \/ LegacyReturns

SpecLegacy == InitLegacy /\ [][NextLegacy]_vars

\* C31: get_pause_duration_for_punctuation returns, without raising, the
\* target pause in ms for every mark: 24 frames in ms for an end mark, a
\* whole number of frames in the mid range in ms for a mid mark, and None
\* for the empty string or an unknown mark.
C31_LegacyPauseReturned ==
    /\ cpc \notin {"KeyError", "NameError"}
    /\ cpc = "legacy_returned" =>
          /\ punct_arg \in {".", "!", "?", "..."} => pause_ms = 24 * 33
          /\ punct_arg \in {",", ":", ";"} => pause_ms \in {6 * 33, 7 * 33, 8 * 33}
          /\ GetPunctuationType(punct_arg) = "none" => pause_ms = "None"

-----------------------------------------------------------------------------
(* process_audio of voice_tools v2 (voice_tools v2/voice_app.py 75-165):   *)
(* the loop over the detected silences in both logic modes, the rest of    *)
(* the track and the export.                                               *)

\* Instants at which a silence of process_audio may start or end: the
\* lengths between them span 4, 10, 11, 20, 21, 24 and 25 frames, among
\* others.
V2SilenceGrid == {0, 362, 725, 1417, 2241, 2400, 3225}

V2GridEnd == CHOOSE x \in V2SilenceGrid : \A y \in V2SilenceGrid : y <= x

V2_FRAME_MS == 1000 \div FRAME_RATE
V2_PARA_CUT_MS == V2_FRAME_MS * 24
PHRASE_6_MS == V2_FRAME_MS * 7

LogicModes == {"logic_v2", "logic_cu"}

\* detect_silence(min_silence_len=FRAME_MS * 4, ...): ascending, separated
\* ranges of at least four frames.
V2SilenceLists ==
    { [k \in 1..(Cardinality(P) \div 2) |->
          <<SortedSeq(P)[2*k - 1], SortedSeq(P)[2*k]>>] :
      P \in { Q \in SUBSET V2SilenceGrid :
                /\ Cardinality(Q) % 2 = 0
                /\ Cardinality(Q) <= 2 * MaxSilences
                /\ \A k \in 1..(Cardinality(Q) \div 2) :
                      SortedSeq(Q)[2*k] - SortedSeq(Q)[2*k - 1]
                        >= V2_FRAME_MS * 4 } }

\* round(num / den), Python 3: to the nearest integer, a tie to the even one.
PyRound(num, den) ==
    LET q == num \div den
        r == num % den
    IN  IF 2 * r < den THEN q
        ELSE IF 2 * r > den THEN q + 1
        ELSE IF q % 2 = 0 THEN q ELSE q + 1

\* The logic_v2 branch with the 21-24 band cut like the longer silences.
LogicV2CutsAbove20(start, end, frame_len, silence_len) ==
    IF frame_len <= 10 THEN {AudioSlice(start, end)}
    ELSE IF 11 <= frame_len /\ frame_len <= 20 THEN
        { HeadMidTail(start, end, V2_FRAME_MS * target_frames,
                      Min(100, silence_len),
                      Min(50, Max(0, silence_len - Min(100, silence_len)))) :
            target_frames \in 8..10 }
    ELSE {HeadMidTail(start, end, V2_PARA_CUT_MS, 200, 100)}
\* Lines 105-139: what the logic_v2 branch can append for one silence.
LogicV2(start, end, frame_len, silence_len) ==
    IF frame_len <= 10 THEN {AudioSlice(start, end)}
    ELSE IF 11 <= frame_len /\ frame_len <= 20 THEN
        { HeadMidTail(start, end, V2_FRAME_MS * target_frames,
                      Min(100, silence_len),
                      Min(50, Max(0, silence_len - Min(100, silence_len)))) :
            target_frames \in 8..10 }
    ELSE IF frame_len > 24 THEN
        {HeadMidTail(start, end, V2_PARA_CUT_MS, 200, 100)}
    ELSE {AudioSlice(start, end)}

\* Lines 140-155: the older logic, kept for compatibility.  Its slices are
\* taken without clamping to the silence; the synthetic part is always
\* appended.
LogicCu(start, end, frame_len, silence_len) ==
    IF frame_len > 20 THEN
        { AudioSlice(start, start + 200)
            \o Silent(V2_PARA_CUT_MS - 200 - 100)
            \o AudioSlice(end - 100, end) }
    ELSE IF 6 <= frame_len /\ frame_len <= 20 THEN
        { AudioSlice(start, start + 100)
            \o Silent(PHRASE_6_MS - 100 - 50)
            \o AudioSlice(end - 50, end) }
    ELSE {AudioSlice(start, end)}

\* One iteration of `for i, (start, end) in enumerate(silence_ranges)`
\* (lines 98-161), the progress report included.
V2Step ==
    /\ pc = "v2_loop"
    /\ i <= Len(silence_ranges)
    /\ LET start == silence_ranges[i][1]
           end == silence_ranges[i][2]
           silence_len == end - start
           frame_len == silence_len \div V2_FRAME_MS
           chunk == IF start > last_end THEN AudioSlice(last_end, start) ELSE <<>>
           emitted == IF logic_mode = "logic_v2"
                      THEN LogicV2(start, end, frame_len, silence_len)
                      ELSE LogicCu(start, end, frame_len, silence_len)
       IN  /\ \E seg \in emitted :
                /\ segment' = seg
                /\ result' = result \o chunk \o seg
           /\ last_end' = end
    /\ progress' = Append(progress, PyRound(i * 100, Len(silence_ranges)))
    /\ i' = i + 1
    /\ UNCHANGED <<pc, audio_len, silence_ranges, logic_mode>>
    /\ UNCHANGED <<silences, aligned_words, edit_points, cursor>>
    /\ UNCHANGED <<mode, rpc, total, run_i, cancel_requested, exported, outcome>>
    /\ UNCHANGED <<alignVars, policyVars, nonV2Rest>>

\* `result += audio[last_end:]` (line 163).
V2CopyRemaining ==
    /\ pc = "v2_loop"
    /\ i > Len(silence_ranges)
    /\ result' = result \o AudioSlice(last_end, audio_len)
    /\ pc' = "v2_export"
    /\ UNCHANGED <<audio_len, i, silence_ranges, last_end, segment, logic_mode>>
    /\ UNCHANGED <<silences, aligned_words, edit_points, cursor>>
    /\ UNCHANGED <<alignVars, policyVars, runVars, nonV2Rest>>

\* result.export(...) and `return result` (lines 164-165).
V2Export ==
    /\ pc = "v2_export"
    /\ pc' = "v2_done"
    /\ UNCHANGED <<audio_len, i, result, silence_ranges, last_end, segment, logic_mode>>
    /\ UNCHANGED <<silences, aligned_words, edit_points, cursor>>
    /\ UNCHANGED <<alignVars, policyVars, runVars, nonV2Rest>>

InitV2 ==
    /\ GuiIdle
    /\ WhisperIdle
    /\ TextIdle
    /\ ConfigIdle
    /\ AppInitial
    /\ logic_mode \in LogicModes
    /\ pc = "v2_loop"
    /\ audio_len \in {V2GridEnd, V2GridEnd + TailNoise}
    /\ silence_ranges \in V2SilenceLists
    /\ i = 1
    /\ result = <<>>
    /\ last_end = 0
    /\ segment = <<>>
    /\ silences = <<>>
    /\ aligned_words = <<>>
    /\ edit_points = <<>>
    /\ cursor = 0
    /\ AlignerIdle
    /\ PolicyIdle
    /\ RunIdle

NextV2 == V2Step \/ V2CopyRemaining \/ V2Export

SpecV2 == InitV2 /\ [][NextV2]_vars

\* The silence the last iteration of the v2 loop handled, in frames.
V2LastFrames ==
    (silence_ranges[i - 1][2] - silence_ranges[i - 1][1]) \div V2_FRAME_MS

\* C32: in logic_v2 mode a silence of at most 10 frames or of 21 to 24
\* frames is copied unchanged, one of 11 to 20 frames is replaced by a
\* segment lasting a whole number of frames in [8, 10] (264 to 330 ms), and
\* one of more than 24 frames by a segment of exactly 24 frames (792 ms).
C32_LogicV2Bands ==
    (pc = "v2_loop" /\ i > 1 /\ logic_mode = "logic_v2") =>
        LET start == silence_ranges[i - 1][1]
            end == silence_ranges[i - 1][2]
        IN  IF V2LastFrames <= 10 \/ V2LastFrames \in 21..24
            THEN segment = <<Src(start, end)>>
            ELSE IF V2LastFrames \in 11..20
            THEN Duration(segment) \in {264, 297, 330}
            ELSE Duration(segment) = 792

\* Silences of every band have been handled in logic_v2 mode: here one of
\* 21 to 24 frames, copied, after one that was shortened.
C32_Witness ==
    /\ pc = "v2_loop"
    /\ logic_mode = "logic_v2"
    /\ i = 3
    /\ V2LastFrames \in 21..24
    /\ segment = <<Src(silence_ranges[2][1], silence_ranges[2][2])>>
    /\ Duration(result) < silence_ranges[2][2]

-----------------------------------------------------------------------------
(* The tiny-voice-chunk sweep applied to its own output *)

\* C34: the tiny-voice-chunk sweep is idempotent: sorting the filtered edit
\* points by silence_start and sweeping them again, from last_silence_end
\* = 0, removes nothing and keeps the order.
C34_SweepIdempotent ==
    PlanResolved => Sweep(SortByStart(edit_points), 0) = edit_points

\* The sweep has run: it removed a candidate (a silence was claimed that no
\* edit point holds any more) and kept another.
C34_Witness ==
    /\ pc = "rebuild"
    /\ i = 1
    /\ Len(edit_points) >= 1
    /\ \E k \in 1..Len(silences) :
          /\ silences[k].used
          /\ \A e \in 1..Len(edit_points) : edit_points[e].sil # k

-----------------------------------------------------------------------------
(* The word list of a call that was retried without VAD *)

\* transcribe_audio has returned after a retry: `return words` (line 222).
ReturnedAfterRetry ==
    /\ wpc = "idle"
    /\ calls > 0
    /\ raised = "none"
    /\ recognitions = 2

\* C36: when the first attempt fails partway with a VAD error and the retry
\* succeeds, the returned list holds the words of the retry only, each
\* once and in the recognizer's order; no word collected during the failed
\* attempt is returned.
C36_RetryWordsOnly ==
    [][ReturnedAfterRetry' =>
          /\ words' = heard'
          /\ \A k \in 1..Len(words') :
                /\ words'[k].attempt = 2
                /\ words'[k].index = k
          /\ (wpc = "retry") =>
                \A k \in 1..Len(words) : words[k].attempt = 1]_vars

\* A call returned the words of its retry, as many as an attempt can
\* yield, the first attempt having failed with a VAD error.
C36_Witness ==
    /\ ReturnedAfterRetry
    /\ Len(words) = MaxHeard
    /\ IsVadError(first_error)

-----------------------------------------------------------------------------
(* VoiceApp (voice_app.py): the GUI thread runs start_processing (298-329)  *)
(* and request_cancel (269-274), each to its end, when the user presses an  *)
(* enabled button; every run_pipeline call (331-388) runs on a thread of    *)
(* its own, whose statements interleave with the GUI thread's handlers and  *)
(* with the other threads.                                                  *)

\* The flag left as the previous run set it.
CancelFlagKeptAtStart(flag) == flag
\* `self._cancel_requested = False` (line 317).
CancelFlagAtStart(flag) == FALSE

\* An error leaves the thread without the finally block.
AfterHandlerSkipsFinallyOnError(how) ==
    IF how = "error" THEN "none" ELSE "finally_processing"
\* Whatever the try statement ended with, the finally block is next (385).
AfterHandler(how) == "finally_processing"

\* A thread slot with no live thread.
FreeWorker(w) == worker[w] = "none"

\* start_processing stopped by one of its three validations (299-313).
StartRejected ==
    /\ start_btn = "normal"
    /\ status_label' = "invalid"
    /\ UNCHANGED <<is_processing, cancel_flag, start_btn, cancel_btn, worker>>
    /\ UNCHANGED <<smartVars, alignVars, fastVars, policyVars, runVars, nonAppRest>>

\* start_processing past its validations (315-329): the flags, the
\* buttons, and thread.start().
StartProcessing(w) ==
    /\ start_btn = "normal"
    /\ FreeWorker(w)
    /\ is_processing' = TRUE
    /\ cancel_flag' = CancelFlagAtStart(cancel_flag)
    /\ start_btn' = "disabled"
    /\ cancel_btn' = "normal"
    /\ worker' = [worker EXCEPT ![w] = "run"]
    /\ UNCHANGED status_label
    /\ UNCHANGED <<smartVars, alignVars, fastVars, policyVars, runVars, nonAppRest>>

\* request_cancel (269-274), the command of the cancel button.
RequestCancel ==
    /\ cancel_btn = "normal"
    /\ IF is_processing
       THEN /\ cancel_flag' = TRUE
            /\ status_label' = "stopping"
            /\ cancel_btn' = "disabled"
       ELSE UNCHANGED <<cancel_flag, status_label, cancel_btn>>
    /\ UNCHANGED <<is_processing, start_btn, worker>>
    /\ UNCHANGED <<smartVars, alignVars, fastVars, policyVars, runVars, nonAppRest>>

\* cb(percent, status) called by the running pipeline (336-337).
WorkerReports(w) ==
    /\ worker[w] = "run"
    /\ status_label' = "progress"
    /\ UNCHANGED <<is_processing, cancel_flag, start_btn, cancel_btn, worker>>
    /\ UNCHANGED <<smartVars, alignVars, fastVars, policyVars, runVars, nonAppRest>>

\* The body of the try up to the end of the pipeline call (332-369): it
\* returns, raises InterruptedError (only a poll that read the flag as
\* true does), or raises something else.
WorkerCallEnds(w) ==
    /\ worker[w] = "run"
    /\ \E how \in {"success", "error"} \cup
                  (IF cancel_flag THEN {"cancelled"} ELSE {}) :
          worker' = [worker EXCEPT ![w] = how]
    /\ UNCHANGED <<is_processing, cancel_flag, start_btn, cancel_btn, status_label>>
    /\ UNCHANGED <<smartVars, alignVars, fastVars, policyVars, runVars, nonAppRest>>

\* Lines 371-377: the success status and messagebox.showinfo, which is
\* open from here on.
WorkerShowsSuccess(w) ==
    /\ worker[w] = "success"
    /\ status_label' = "success"
    /\ worker' = [worker EXCEPT ![w] = "popup"]
    /\ UNCHANGED <<is_processing, cancel_flag, start_btn, cancel_btn>>
    /\ UNCHANGED <<smartVars, alignVars, fastVars, policyVars, runVars, nonAppRest>>

\* messagebox.showinfo returns (377).
PopupCloses(w) ==
    /\ worker[w] = "popup"
    /\ worker' = [worker EXCEPT ![w] = AfterHandler("success")]
    /\ UNCHANGED <<is_processing, cancel_flag, start_btn, cancel_btn, status_label>>
    /\ UNCHANGED <<smartVars, alignVars, fastVars, policyVars, runVars, nonAppRest>>

\* The two except clauses (379-384).
WorkerHandles(w) ==
    /\ worker[w] \in {"cancelled", "error"}
    /\ status_label' = worker[w]
    /\ worker' = [worker EXCEPT ![w] = AfterHandler(worker[w])]
    /\ UNCHANGED <<is_processing, cancel_flag, start_btn, cancel_btn>>
    /\ UNCHANGED <<smartVars, alignVars, fastVars, policyVars, runVars, nonAppRest>>

\* finally: `self.is_processing = False` (386).
FinallyProcessing(w) ==
    /\ worker[w] = "finally_processing"
    /\ is_processing' = FALSE
    /\ worker' = [worker EXCEPT ![w] = "finally_start_btn"]
    /\ UNCHANGED <<cancel_flag, start_btn, cancel_btn, status_label>>
    /\ UNCHANGED <<smartVars, alignVars, fastVars, policyVars, runVars, nonAppRest>>

\* finally: `self.start_btn.configure(state="normal")` (387).
FinallyStartBtn(w) ==
    /\ worker[w] = "finally_start_btn"
    /\ start_btn' = "normal"
    /\ worker' = [worker EXCEPT ![w] = "finally_cancel_btn"]
    /\ UNCHANGED <<is_processing, cancel_flag, cancel_btn, status_label>>
    /\ UNCHANGED <<smartVars, alignVars, fastVars, policyVars, runVars, nonAppRest>>

\* finally: `self.cancel_btn.configure(state="disabled")` (388); the
\* thread ends.
FinallyCancelBtn(w) ==
    /\ worker[w] = "finally_cancel_btn"
    /\ cancel_btn' = "disabled"
    /\ worker' = [worker EXCEPT ![w] = "none"]
    /\ UNCHANGED <<is_processing, cancel_flag, start_btn, status_label>>
    /\ UNCHANGED <<smartVars, alignVars, fastVars, policyVars, runVars, nonAppRest>>

\* What the thread w does next, whatever it is.
WorkerStep(w) ==
    \/ WorkerCallEnds(w)
    \/ WorkerShowsSuccess(w)
    \/ PopupCloses(w)
    \/ WorkerHandles(w)
    \/ FinallyProcessing(w)
    \/ FinallyStartBtn(w)
    \/ FinallyCancelBtn(w)

InitApp ==
    /\ AppInitial
    /\ V2Idle
    /\ GuiIdle
    /\ WhisperIdle
    /\ TextIdle
    /\ ConfigIdle
    /\ RunIdle
    /\ SmartIdle
    /\ AlignerIdle
    /\ FastIdle
    /\ PolicyIdle

NextApp ==
    \/ StartRejected
    \/ RequestCancel
    \/ \E w \in Workers :
          \/ StartProcessing(w)
          \/ WorkerReports(w)
          \/ WorkerStep(w)

SpecApp == InitApp /\ [][NextApp]_vars

\* Every live thread goes on executing: the pipeline call ends, the
\* notification is closed, the handlers and the finally block run.
SpecAppLive == SpecApp /\ \A w \in Workers : WF_vars(WorkerStep(w))

\* The threads alive.
ActiveWorkers == {w \in Workers : worker[w] # "none"}

\* The application is idle.
AppIsIdle ==
    /\ is_processing = FALSE
    /\ start_btn = "normal"
    /\ cancel_btn = "disabled"

\* C37: at most one run_pipeline worker is active at any time: from the
\* launch of a worker until its finally block has run, no interleaving of
\* the user's start and cancel with the worker launches a second one.
C37_AtMostOneWorker ==
    Cardinality(ActiveWorkers) <= 1

\* C38: the cancel flag is false at the moment every worker starts,
\* whatever the previous run and the cancel requests did: a request made
\* during one run never cancels a later run.
C38_FlagClearAtStart ==
    [][\A w \in Workers :
          (worker[w] = "none" /\ worker'[w] = "run") => cancel_flag' = FALSE]_vars

\* A run has just been started after a run that a cancel request ended:
\* the label still shows the cancellation, the flag is down again.
C38_Witness ==
    /\ status_label = "cancelled"
    /\ is_processing
    /\ \E w \in Workers : worker[w] = "run"
    /\ cancel_flag = FALSE

\* C39: every run_pipeline worker, whether it ends in success, cancellation
\* or an error, eventually leaves the application idle: is_processing
\* False, the start button enabled, the cancel button disabled.
C39_WorkerLeavesAppIdle ==
    \A w \in Workers : (worker[w] # "none") ~> AppIsIdle

\* The application is idle again after a cancelled run: no thread is left.
C39_Witness ==
    /\ AppIsIdle
    /\ ActiveWorkers = {}
    /\ status_label = "cancelled"

=============================================================================
